---- MODULE Spec2Model ----
(***************************************************************************)
(* craneboy: Game Boy / Game Boy Color emulator core.                      *)
(*                                                                         *)
(* The cartridge controllers (src/src/mbc), the cartridge constructor      *)
(* get_mbc, the system bus (src/src/mmu.rs, src/src/serial.rs) and the     *)
(* interrupt phase of the CPU step (src/src/cpu.rs) as state machines.     *)
(*                                                                         *)
(* Bytes and addresses keep their width (u8: % 256, u16: % 65536).  A      *)
(* Rust panic (index out of bounds, division by zero, arithmetic overflow  *)
(* in a build with overflow checks) is recorded in a `panic` field and     *)
(* aborts the program: no operation is enabled afterwards.                 *)
(*                                                                         *)
(* Memories are far too large to enumerate; every array is modelled at the *)
(* cells that the representative addresses below can reach (its length is  *)
(* kept exactly, so that bounds checks are the code's).                    *)
(***************************************************************************)
EXTENDS Integers, Sequences, FiniteSets, TLC

VARIABLES
    mmu,     \* the MMU (mmu.rs:20-44); mmu.mbc is the cartridge it owns
    cpu,     \* the CPU registers and interrupt state (cpu.rs:10-18)
    last,    \* the operation performed last, with its arguments and result
    obs,    \* history of the control-register writes (observer, not program state)
    cart,    \* the image handed to get_mbc and what get_mbc returned
    dev      \* a component driven on its own: the printer, the sound unit or
             \* the register file (none in the runs of the whole machine)

vars == <<mmu, cpu, last, obs, cart, dev>>

----------------------------------------------------------------------------
(* Bounds of the model *)

\* a run stores into cartridge RAM at most MaxFill times
MaxFill == 1
\* the host clock reads Epoch .. Epoch + MaxClock (seconds)
MaxClock == 1
\* ROM fill patterns (seeds) 0 .. MaxSeed
MaxSeed == 1
\* a run services at most MaxPush interrupts
MaxPush == 2

----------------------------------------------------------------------------
(* Machine arithmetic *)

RECURSIVE And(_, _)
And(a, b) ==
    IF a = 0 \/ b = 0 THEN 0
    ELSE (a % 2) * (b % 2) + 2 * And(a \div 2, b \div 2)

RECURSIVE Or(_, _)
Or(a, b) ==
    IF a = 0 THEN b
    ELSE IF b = 0 THEN a
    ELSE (IF a % 2 = 1 \/ b % 2 = 1 THEN 1 ELSE 0) + 2 * Or(a \div 2, b \div 2)

RECURSIVE Pow2(_)
Pow2(n) == IF n = 0 THEN 1 ELSE 2 * Pow2(n - 1)

Shl(a, n) == a * Pow2(n)
Shr(a, n) == a \div Pow2(n)

\* u8::wrapping_sub
wrapping_sub8(a, b) == (a - b + 256) % 256
\* u16::wrapping_sub
wrapping_sub16(a, b) == (a - b + 65536) % 65536

\* the value an operation returns when it panics instead of returning
PANIC == 0 - 1

\* a u32 as its two 16-bit halves, and the u32 of a number below 2^31
Wide(n) == [hi |-> n \div 65536, lo |-> n % 65536]

\* the sum of two u32 before it is cut to 32 bits: hi reaches 65536 and more
\* when the sum does not fit
Sum32(x, y) ==
    [hi |-> x.hi + y.hi + (x.lo + y.lo) \div 65536, lo |-> (x.lo + y.lo) % 65536]

Fits32(x) == x.hi < 65536

\* x / d and x * d for d in {1, 2}
Div32(x, d) == [hi |-> x.hi \div d, lo |-> ((x.hi % d) * 65536 + x.lo) \div d]
Mul32(x, d) == IF d = 1 THEN x ELSE Sum32(x, x)

----------------------------------------------------------------------------
(* Cartridge images.  An image is its length, the header bytes the code   *)
(* reads (0x143 CGB flag, 0x147 type, 0x148 ROM size, 0x149 RAM size,      *)
(* 0x14D header checksum) and a fill pattern for every other byte: the     *)
(* constant `seed`, or (ramp = 1) a ramp that differs from bank to bank    *)
(* for each of the 512 banks a header can declare.                         *)

Fill(data, i) ==
    (data.seed + data.ramp * (3 * (i \div \h4000) + (i % \h4000))) % 251

\* data[i], for i < data.len
RomAt(data, i) ==
    CASE i = \h143 -> data.cgb
      [] i = \h147 -> data.ctype
      [] i = \h148 -> data.romsz
      [] i = \h149 -> data.ramsz
      [] i = \h14D -> data.cksum
      [] OTHER -> Fill(data, i)

\* Vec::get(idx).copied().unwrap_or(dflt)
RomGetOr(data, idx, dflt) == IF idx < data.len THEN RomAt(data, idx) ELSE dflt

ram_banks(v) ==
    CASE v \in {1, 2} -> 1
      [] v = 3 -> 4
      [] v = 4 -> 16
      [] v = 5 -> 8
      [] OTHER -> 0

rom_banks(v) == IF v <= 8 THEN Shl(2, v) ELSE 0

----------------------------------------------------------------------------
(* Byte vectors (cartridge RAM, save files): the length and the bytes at   *)
(* the representative indices below the length.                            *)

\* offsets inside an 8 KiB RAM bank that the representative bus addresses hit
RamOffs == {0, \h1FF, \h1FFF}

RepIdx == {b * \h2000 + o : b \in 0 .. 15, o \in RamOffs}

Cells(len) == {i \in RepIdx : i < len}

\* iter::repeat_n(0, size).collect() / vec![0; size]
ZeroVec(size) == [len |-> size, at |-> [i \in Cells(size) |-> 0]]

VecGet(vec, i) == vec.at[i]
VecSet(vec, i, v) == [vec EXCEPT !.at[i] = v]
InBounds(vec, i) == i < vec.len

\* u64::to_be_bytes; the model's timestamps are below 2^31, so the upper
\* four bytes are 0
to_be_bytes(x) ==
    [k \in 0 .. 7 |-> IF k < 4 THEN 0 ELSE (x \div Shl(1, 8 * (7 - k))) % 256]

\* u64::from_be_bytes, for byte strings whose upper four bytes are 0
from_be_bytes(b) == b[4] * 16777216 + b[5] * 65536 + b[6] * 256 + b[7]

None == [some |-> FALSE, v |-> 0]
Some(x) == [some |-> TRUE, v |-> x]

----------------------------------------------------------------------------
(* The cartridge controllers.  One record shape serves the five variants:  *)
(* a field a variant does not have keeps its initial value.                *)

MbcBase(k, data) ==
    [kind |-> k, rom |-> data, ram |-> ZeroVec(0),
     ram_on |-> FALSE, ram_updated |-> FALSE, banking_mode |-> 0,
     rom_bank |-> 1, ram_bank |-> 0, has_battery |-> FALSE,
     rom_banks |-> 0, ram_banks |-> 0, select_rtc |-> FALSE,
     rtc_ram |-> <<0, 0, 0, 0, 0>>, rtc_ram_latch |-> <<0, 0, 0, 0, 0>>,
     rtc_zero |-> None, panic |-> FALSE]

MBC0_new(data) == MbcBase("MBC0", data)

MBC1_new(data) ==
    LET rb == CASE data.ctype \in {2, 3} -> ram_banks(data.ramsz)
                [] OTHER -> 0
    IN  [MbcBase("MBC1", data) EXCEPT
            !.has_battery = (data.ctype = 3),
            !.ram_banks = rb,
            !.rom_banks = rom_banks(data.romsz),
            !.ram = ZeroVec(rb * \h2000)]

MBC2_new(data) ==
    [MbcBase("MBC2", data) EXCEPT
        !.has_battery = (data.ctype = 6),
        !.rom_banks = rom_banks(data.romsz),
        !.ram = ZeroVec(512)]

MBC3_new(data) ==
    LET rb == IF data.ctype \in {\h10, \h12, \h13}
              THEN ram_banks(data.ramsz) ELSE 0
    IN  [MbcBase("MBC3", data) EXCEPT
            !.has_battery = (data.ctype \in {\h0F, \h10, \h13}),
            !.ram_banks = rb,
            !.ram = ZeroVec(rb * \h2000),
            !.rtc_zero = IF data.ctype \in {\h0F, \h10} THEN Some(0) ELSE None]

MBC5_new(data) ==
    LET rb == IF data.ctype \in {\h1A, \h1B, \h1D, \h1E}
              THEN ram_banks(data.ramsz) ELSE 0
    IN  [MbcBase("MBC5", data) EXCEPT
            !.has_battery = (data.ctype \in {\h1B, \h1E}),
            !.ram_banks = rb,
            !.rom_banks = rom_banks(data.romsz),
            !.ram = ZeroVec(rb * \h2000)]

Panicked(c) == [c EXCEPT !.panic = TRUE]

----------------------------------------------------------------------------
(* MBC0 *)

MBC0_read_rom(c, a) == IF a < c.rom.len THEN RomAt(c.rom, a) ELSE PANIC

----------------------------------------------------------------------------
(* MBC1 *)

MBC1_RamBankSel(c) == IF c.banking_mode = 1 THEN c.ram_bank ELSE 0

\* MBC1::read_rom with the low region fixed to bank 0
MBC1_read_rom_low_fixed(c, a) ==
    LET bank == IF a < \h4000 THEN 0 ELSE c.rom_bank
        idx == Or(bank * \h4000, And(a, \h3FFF))
    IN  RomGetOr(c.rom, idx, \hFF)

MBC1_read_rom(c, a) ==
    LET bank == IF a < \h4000
                THEN (IF c.banking_mode = 0 THEN 0 ELSE And(c.rom_bank, \hE0))
                ELSE c.rom_bank
        idx == Or(bank * \h4000, And(a, \h3FFF))
    IN  RomGetOr(c.rom, idx, \hFF)

MBC1_read_ram(c, a) ==
    IF ~c.ram_on THEN \hFF
    ELSE LET idx == Or(MBC1_RamBankSel(c) * \h2000, And(a, \h1FFF))
         IN  IF InBounds(c.ram, idx) THEN VecGet(c.ram, idx) ELSE PANIC

MBC1_write_rom(c, a, v) ==
    CASE a <= \h1FFF -> [c EXCEPT !.ram_on = (And(v, \h0F) = \h0A)]
      [] a \in \h2000 .. \h3FFF ->
            LET lower_bits == IF And(v, \h1F) = 0 THEN 1 ELSE And(v, \h1F)
            IN  IF c.rom_banks = 0 THEN Panicked(c)
                ELSE [c EXCEPT !.rom_bank =
                        Or(And(c.rom_bank, \h60), lower_bits) % c.rom_banks]
      [] a \in \h4000 .. \h5FFF ->
            LET c1 == IF c.rom_banks > \h20
                      THEN [c EXCEPT !.rom_bank =
                              Or(And(c.rom_bank, \h1F),
                                 Shl(And(v, 3) % Shr(c.rom_banks, 5), 5))]
                      ELSE c
            IN  IF c.ram_banks > 1
                THEN [c1 EXCEPT !.ram_bank = And(v, 3)]
                ELSE c1
      [] a \in \h6000 .. \h7FFF -> [c EXCEPT !.banking_mode = And(v, 1)]
      [] OTHER -> Panicked(c)

\* MBC1::write_ram without the test of ram_on
MBC1_write_ram_ungated(c, a, v) ==
    LET address == Or(MBC1_RamBankSel(c) * \h2000, And(a, \h1FFF))
    IN  IF address < c.ram.len
        THEN [c EXCEPT !.ram = VecSet(c.ram, address, v), !.ram_updated = TRUE]
        ELSE c

MBC1_write_ram(c, a, v) ==
    IF ~c.ram_on THEN c
    ELSE LET address == Or(MBC1_RamBankSel(c) * \h2000, And(a, \h1FFF))
         IN  IF address < c.ram.len
             THEN [c EXCEPT !.ram = VecSet(c.ram, address, v),
                            !.ram_updated = TRUE]
             ELSE c

----------------------------------------------------------------------------
(* MBC2 *)

MBC2_read_rom(c, a) ==
    LET bank == IF a < \h4000 THEN 0 ELSE c.rom_bank
        idx == Or(bank * \h4000, And(a, \h3FFF))
    IN  RomGetOr(c.rom, idx, \hFF)

MBC2_read_ram(c, a) ==
    IF ~c.ram_on THEN \hFF
    ELSE Or(VecGet(c.ram, And(a, \h1FF)), \hF0)

MBC2_write_rom(c, a, v) ==
    IF a <= \h3FFF
    THEN IF And(a, \h100) = 0
         THEN [c EXCEPT !.ram_on = (And(v, \h0F) = \h0A)]
         ELSE IF c.rom_banks = 0 THEN Panicked(c)
              ELSE [c EXCEPT !.rom_bank =
                      (IF And(v, \h0F) = 0 THEN 1 ELSE And(v, \h0F)) % c.rom_banks]
    ELSE c

MBC2_write_ram(c, a, v) ==
    IF ~c.ram_on THEN c
    ELSE [c EXCEPT !.ram = VecSet(c.ram, And(a, \h1FF), Or(v, \hF0)),
                   !.ram_updated = TRUE]

----------------------------------------------------------------------------
(* MBC3.  The host clock `now` (whole seconds since the Unix epoch) is an  *)
(* input of every operation that reads SystemTime::now().  The clock of    *)
(* the model is far enough from the epoch that none of the subtractions of *)
(* compute_difftime can underflow.                                         *)

RtcDays(r) == Or(Shl(And(r[5], 1), 8), r[4])

MBC3_compute_difftime(c, now) ==
    IF ~c.rtc_zero.some THEN None
    ELSE LET r == c.rtc_ram
         IN  Some(now - r[1] - r[2] * 60 - r[3] * 3600 - RtcDays(r) * 3600 * 24)

MBC3_calc_rtc_zero(c, now) == [c EXCEPT !.rtc_zero = MBC3_compute_difftime(c, now)]

MBC3_calc_rtc_reg(c, now) ==
    IF And(c.rtc_ram[5], \h40) = \h40 THEN c
    ELSE IF ~c.rtc_zero.some THEN c
    ELSE IF MBC3_compute_difftime(c, now) = c.rtc_zero THEN c
    ELSE LET tzero == c.rtc_zero.v
             difftime == IF now >= tzero THEN now - tzero ELSE 0
             days == difftime \div (3600 * 24)
             r == <<difftime % 60,
                    (difftime \div 60) % 60,
                    (difftime \div 3600) % 24,
                    days % 256,
                    Or(And(c.rtc_ram[5], \hFE), And(Shr(days, 8), 1))>>
         IN  IF days >= 512
             THEN MBC3_calc_rtc_zero(
                      [c EXCEPT !.rtc_ram = [r EXCEPT ![5] = Or(r[5], \h80)]], now)
             ELSE [c EXCEPT !.rtc_ram = r]

MBC3_latch_rtc_reg(c, now) ==
    LET c1 == MBC3_calc_rtc_reg(c, now)
    IN  [c1 EXCEPT !.rtc_ram_latch = c1.rtc_ram]

MBC3_read_rom(c, a) ==
    LET idx == IF a < \h4000 THEN a
               ELSE Or(c.rom_bank * \h4000, And(a, \h3FFF))
    IN  RomGetOr(c.rom, idx, \hFF)

MBC3_read_ram(c, a) ==
    IF ~c.ram_on THEN \hFF
    ELSE IF ~c.select_rtc /\ c.ram_bank < c.ram_banks
         THEN VecGet(c.ram, Or(c.ram_bank * \h2000, And(a, \h1FFF)))
    ELSE IF c.select_rtc /\ c.ram_bank < 5
         THEN c.rtc_ram_latch[c.ram_bank + 1]
    ELSE \hFF

\* MBC3::write_rom without the coercion of bank 0 to bank 1
MBC3_write_rom_bank_zero(c, a, v, now) ==
    CASE a <= \h1FFF -> [c EXCEPT !.ram_on = (And(v, \h0F) = \h0A)]
      [] a \in \h2000 .. \h3FFF -> [c EXCEPT !.rom_bank = And(v, \h7F)]
      [] a \in \h4000 .. \h5FFF ->
            [c EXCEPT !.select_rtc = (And(v, 8) = 8), !.ram_bank = And(v, 7)]
      [] a \in \h6000 .. \h7FFF -> MBC3_latch_rtc_reg(c, now)
      [] OTHER -> Panicked(c)

MBC3_write_rom(c, a, v, now) ==
    CASE a <= \h1FFF -> [c EXCEPT !.ram_on = (And(v, \h0F) = \h0A)]
      [] a \in \h2000 .. \h3FFF ->
            [c EXCEPT !.rom_bank = IF And(v, \h7F) = 0 THEN 1 ELSE And(v, \h7F)]
      [] a \in \h4000 .. \h5FFF ->
            [c EXCEPT !.select_rtc = (And(v, 8) = 8), !.ram_bank = And(v, 7)]
      [] a \in \h6000 .. \h7FFF -> MBC3_latch_rtc_reg(c, now)
      [] OTHER -> Panicked(c)

MBC3_vmask(bank) ==
    CASE bank \in {0, 1} -> \h3F
      [] bank = 2 -> \h1F
      [] bank = 4 -> \hC1
      [] OTHER -> \hFF

MBC3_write_ram(c, a, v, now) ==
    IF ~c.ram_on THEN c
    ELSE IF ~c.select_rtc /\ c.ram_bank < c.ram_banks
         THEN [c EXCEPT
                 !.ram = VecSet(c.ram, Or(c.ram_bank * \h2000, And(a, \h1FFF)), v),
                 !.ram_updated = TRUE]
    ELSE IF c.select_rtc /\ c.ram_bank < 5
         THEN LET c1 == MBC3_calc_rtc_reg(c, now)
                  c2 == [c1 EXCEPT !.rtc_ram[c.ram_bank + 1] =
                                       And(v, MBC3_vmask(c.ram_bank))]
              IN  [MBC3_calc_rtc_zero(c2, now) EXCEPT !.ram_updated = TRUE]
    ELSE c

----------------------------------------------------------------------------
(* MBC5 *)

MBC5_read_rom(c, a) ==
    LET idx == IF a < \h4000 THEN a
               ELSE Or(c.rom_bank * \h4000, And(a, \h3FFF))
    IN  RomGetOr(c.rom, idx, 0)

MBC5_RamIdx(c, a) == Or(c.ram_bank * \h2000, And(a, \h1FFF))

MBC5_read_ram(c, a) ==
    IF ~c.ram_on THEN 0
    ELSE IF InBounds(c.ram, MBC5_RamIdx(c, a))
         THEN VecGet(c.ram, MBC5_RamIdx(c, a)) ELSE PANIC

MBC5_write_rom(c, a, v) ==
    CASE a <= \h1FFF -> [c EXCEPT !.ram_on = (And(v, \h0F) = \h0A)]
      [] a \in \h2000 .. \h2FFF ->
            IF c.rom_banks = 0 THEN Panicked(c)
            ELSE [c EXCEPT !.rom_bank =
                    Or(And(c.rom_bank, \h100), v % c.rom_banks)]
      [] a \in \h3000 .. \h3FFF ->
            IF c.rom_banks = 0 THEN Panicked(c)
            ELSE [c EXCEPT !.rom_bank =
                    Or(And(c.rom_bank, \h0FF), Shl(And(v, 1), 8)) % c.rom_banks]
      [] a \in \h4000 .. \h5FFF ->
            IF c.ram_banks = 0 THEN Panicked(c)
            ELSE [c EXCEPT !.ram_bank = And(v, \h0F) % c.ram_banks]
      [] a \in \h6000 .. \h7FFF -> c
      [] OTHER -> Panicked(c)

MBC5_write_ram(c, a, v) ==
    IF ~c.ram_on THEN c
    ELSE IF InBounds(c.ram, MBC5_RamIdx(c, a))
         THEN [c EXCEPT !.ram = VecSet(c.ram, MBC5_RamIdx(c, a), v),
                        !.ram_updated = TRUE]
         ELSE Panicked(c)

----------------------------------------------------------------------------
(* The MBC trait: dispatch on the variant *)

read_rom(c, a) ==
    CASE c.kind = "MBC0" -> MBC0_read_rom(c, a)
      [] c.kind = "MBC1" -> MBC1_read_rom(c, a)
      [] c.kind = "MBC2" -> MBC2_read_rom(c, a)
      [] c.kind = "MBC3" -> MBC3_read_rom(c, a)
      [] c.kind = "MBC5" -> MBC5_read_rom(c, a)

read_ram(c, a) ==
    CASE c.kind = "MBC0" -> 0
      [] c.kind = "MBC1" -> MBC1_read_ram(c, a)
      [] c.kind = "MBC2" -> MBC2_read_ram(c, a)
      [] c.kind = "MBC3" -> MBC3_read_ram(c, a)
      [] c.kind = "MBC5" -> MBC5_read_ram(c, a)

write_rom(c, a, v, now) ==
    CASE c.kind = "MBC0" -> c
      [] c.kind = "MBC1" -> MBC1_write_rom(c, a, v)
      [] c.kind = "MBC2" -> MBC2_write_rom(c, a, v)
      [] c.kind = "MBC3" -> MBC3_write_rom(c, a, v, now)
      [] c.kind = "MBC5" -> MBC5_write_rom(c, a, v)

write_ram(c, a, v, now) ==
    CASE c.kind = "MBC0" -> c
      [] c.kind = "MBC1" -> MBC1_write_ram(c, a, v)
      [] c.kind = "MBC2" -> MBC2_write_ram(c, a, v)
      [] c.kind = "MBC3" -> MBC3_write_ram(c, a, v, now)
      [] c.kind = "MBC5" -> MBC5_write_ram(c, a, v)

\* mem::take(&mut self.ram_updated)
\* check_and_reset_ram_updated that reads the flag and leaves it set
check_without_reset(c) ==
    IF c.kind = "MBC0" THEN [ret |-> FALSE, mbc |-> c]
    ELSE [ret |-> c.ram_updated, mbc |-> c]

check_and_reset_ram_updated(c) ==
    IF c.kind = "MBC0" THEN [ret |-> FALSE, mbc |-> c]
    ELSE [ret |-> c.ram_updated, mbc |-> [c EXCEPT !.ram_updated = FALSE]]

\* the save file: the RAM, for MBC3 after the eight bytes of rtc_zero
MBC3_dump_ram(c) ==
    LET rtc == IF c.rtc_zero.some THEN c.rtc_zero.v ELSE 0
        pre == to_be_bytes(rtc)
    IN  [len |-> 8 + c.ram.len,
         at |-> [i \in (0 .. 7) \cup {8 + j : j \in Cells(c.ram.len)} |->
                    IF i < 8 THEN pre[i] ELSE c.ram.at[i - 8]]]

dump_ram(c) ==
    CASE c.kind = "MBC0" -> ZeroVec(0)
      [] c.kind = "MBC3" -> MBC3_dump_ram(c)
      [] OTHER -> c.ram

MBC3_load_ram(c, ram_data) ==
    IF ram_data.len # c.ram.len + 8 THEN [ok |-> FALSE, mbc |-> c]
    ELSE LET rtc == from_be_bytes([k \in 0 .. 7 |-> ram_data.at[k]])
             rest == [len |-> ram_data.len - 8,
                      at |-> [i \in Cells(ram_data.len - 8) |-> ram_data.at[i + 8]]]
         IN  [ok |-> TRUE,
              mbc |-> [c EXCEPT
                         !.rtc_zero = IF c.rtc_zero.some THEN Some(rtc) ELSE @,
                         !.ram = rest]]

\* MBC1::load_ram without the length check
MBC1_load_ram_any_length(c, ram_data) ==
    [ok |-> TRUE, mbc |-> [c EXCEPT !.ram = ram_data]]

\* MBC1::load_ram; MBC2::load_ram and MBC5::load_ram are the same code
MBC1_load_ram(c, ram_data) ==
    IF ram_data.len # c.ram.len THEN [ok |-> FALSE, mbc |-> c]
    ELSE [ok |-> TRUE, mbc |-> [c EXCEPT !.ram = ram_data]]

load_ram(c, ram_data) ==
    CASE c.kind = "MBC0" -> [ok |-> TRUE, mbc |-> c]
      [] c.kind = "MBC3" -> MBC3_load_ram(c, ram_data)
      [] OTHER -> MBC1_load_ram(c, ram_data)

----------------------------------------------------------------------------
(* The cartridge constructor (mbc/mod.rs) *)
\* the loop of check_checksum from index i on; value is the u8 computed so far
RECURSIVE ChecksumLoop(_, _, _)
ChecksumLoop(data, i, value) ==
    IF value \in 0 .. 255 /\ i < \h14D
    THEN ChecksumLoop(data, i + 1,
                      wrapping_sub8(wrapping_sub8(value, RomAt(data, i)), 1))
    ELSE value

\* check_checksum with the sum of the bytes alone (no - 1 per byte)
check_checksum_plain_sum(data) ==
    LET RECURSIVE Sub(_, _)
        Sub(i, value) ==
            IF value \in 0 .. 255 /\ i < \h14D
            THEN Sub(i + 1, wrapping_sub8(value, RomAt(data, i)))
            ELSE value
    IN  IF RomAt(data, \h14D) = Sub(\h134, 0) THEN ""
        ELSE "cartridge checksum is invalid"

\* the error string, "" for Ok(())
check_checksum(data) ==
    IF RomAt(data, \h14D) = ChecksumLoop(data, \h134, 0) THEN ""
    ELSE "cartridge checksum is invalid"

NoMbc(data) == MbcBase("none", data)

\* get_mbc that looks at the cartridge type before the checksum
get_mbc_type_first(data, skip_checksum) ==
    IF data.len < \h150
    THEN [err |-> "rom size too small", mbc |-> NoMbc(data)]
    ELSE LET t == RomAt(data, \h147)
             bad == ~skip_checksum /\ check_checksum(data) # ""
         IN  CASE t \notin (0 .. 3) \cup (5 .. 6) \cup (\h0F .. \h13) \cup (\h19 .. \h1E) ->
                    [err |-> "unsupported mbc type", mbc |-> NoMbc(data)]
               [] bad -> [err |-> check_checksum(data), mbc |-> NoMbc(data)]
               [] t = 0 -> [err |-> "", mbc |-> MBC0_new(data)]
               [] t \in 1 .. 3 -> [err |-> "", mbc |-> MBC1_new(data)]
               [] t \in 5 .. 6 -> [err |-> "", mbc |-> MBC2_new(data)]
               [] t \in \h0F .. \h13 -> [err |-> "", mbc |-> MBC3_new(data)]
               [] OTHER -> [err |-> "", mbc |-> MBC5_new(data)]

get_mbc(data, skip_checksum) ==
    IF data.len < \h150
    THEN [err |-> "rom size too small", mbc |-> NoMbc(data)]
    ELSE IF ~skip_checksum /\ check_checksum(data) # ""
    THEN [err |-> check_checksum(data), mbc |-> NoMbc(data)]
    ELSE LET t == RomAt(data, \h147)
         IN  CASE t = 0 -> [err |-> "", mbc |-> MBC0_new(data)]
               [] t \in 1 .. 3 -> [err |-> "", mbc |-> MBC1_new(data)]
               [] t \in 5 .. 6 -> [err |-> "", mbc |-> MBC2_new(data)]
               [] t \in \h0F .. \h13 -> [err |-> "", mbc |-> MBC3_new(data)]
               [] t \in \h19 .. \h1E -> [err |-> "", mbc |-> MBC5_new(data)]
               [] OTHER -> [err |-> "unsupported mbc type", mbc |-> NoMbc(data)]

----------------------------------------------------------------------------
(* Keypad (keypad.rs) *)

Keypad_new == [row0 |-> \h0F, row1 |-> \h0F, data |-> \hFF, interrupt |-> 0]

\* Keypad::update with the two rows exchanged
Keypad_update_rows_swapped(k) ==
    LET n0 == IF And(k.data, \h10) = 0 THEN And(\h0F, k.row1) ELSE \h0F
        new_values == IF And(k.data, \h20) = 0 THEN And(n0, k.row0) ELSE n0
    IN  [k EXCEPT
           !.interrupt = IF And(k.data, \h0F) = \h0F /\ new_values # \h0F
                         THEN Or(@, \h10) ELSE @,
           !.data = Or(And(k.data, \hF0), new_values)]

Keypad_update(k) ==
    LET old_values == And(k.data, \h0F)
        n0 == IF And(k.data, \h10) = 0 THEN And(\h0F, k.row0) ELSE \h0F
        new_values == IF And(k.data, \h20) = 0 THEN And(n0, k.row1) ELSE n0
    IN  [k EXCEPT
           !.interrupt = IF old_values = \h0F /\ new_values # \h0F
                         THEN Or(@, \h10) ELSE @,
           !.data = Or(And(k.data, \hF0), new_values)]

Keypad_wb(k, value) ==
    Keypad_update([k EXCEPT !.data = Or(And(k.data, \hCF), And(value, \h30))])

Keypad_rb(k) == k.data

\* the bit of its row that a key drives
KeyBit(key) ==
    CASE key \in {"Right", "A"} -> 1
      [] key \in {"Left", "B"} -> 2
      [] key \in {"Up", "Select"} -> 4
      [] OTHER -> 8

\* Keypad::keydown with every key on the action row
Keypad_keydown_action_row(k, key) ==
    Keypad_update([k EXCEPT !.row1 = And(@, 255 - KeyBit(key))])

Keypad_keydown(k, key) ==
    Keypad_update(IF key \in {"Right", "Left", "Up", "Down"}
                  THEN [k EXCEPT !.row0 = And(@, 255 - KeyBit(key))]
                  ELSE [k EXCEPT !.row1 = And(@, 255 - KeyBit(key))])

Keypad_keyup(k, key) ==
    Keypad_update(IF key \in {"Right", "Left", "Up", "Down"}
                  THEN [k EXCEPT !.row0 = Or(@, KeyBit(key))]
                  ELSE [k EXCEPT !.row1 = Or(@, KeyBit(key))])

----------------------------------------------------------------------------
(* Serial port (serial.rs).  `callback` tells whether a callback is        *)
(* registered; `reply` is what the callback answers when it is called      *)
(* (NoReply for None, the byte for Some); `cb_called` and `cb_arg` observe *)
(* the call made by the bus operation in progress.                         *)

NoReply == 0 - 2

Serial_new(cb) ==
    [data |-> 0, control |-> 0, callback |-> cb, interrupt |-> 0,
     cb_called |-> FALSE, cb_arg |-> 0]

\* Serial::wb that starts a transfer on bit 7 alone
Serial_wb_any_clock(s, a, v, reply) ==
    IF a = \hFF01 THEN [s EXCEPT !.data = v]
    ELSE IF And(v, \h80) = \h80 /\ s.callback
    THEN (IF reply # NoReply
          THEN [s EXCEPT !.control = v, !.cb_called = TRUE, !.cb_arg = s.data,
                         !.data = reply, !.interrupt = 8]
          ELSE [s EXCEPT !.control = v, !.cb_called = TRUE, !.cb_arg = s.data])
    ELSE [s EXCEPT !.control = v]

Serial_wb(s, a, v, reply) ==
    IF a = \hFF01 THEN [s EXCEPT !.data = v]
    ELSE LET s1 == [s EXCEPT !.control = v]
         IN  IF And(v, \h81) = \h81 /\ s.callback
             THEN LET s2 == [s1 EXCEPT !.cb_called = TRUE, !.cb_arg = s.data]
                  IN  IF reply # NoReply
                      THEN [s2 EXCEPT !.data = reply, !.interrupt = 8]
                      ELSE s2
             ELSE s1

\* Serial::rb with the two registers exchanged
Serial_rb_swapped(s, a) == IF a = \hFF01 THEN Or(s.control, \h7E) ELSE s.data

Serial_rb(s, a) == IF a = \hFF01 THEN s.data ELSE Or(s.control, \h7E)

----------------------------------------------------------------------------
(* Timer and GPU: their sources (timer.rs, gpu.rs) are not part of the     *)
(* tree; the bus only needs them as the register files the specification   *)
(* describes.                                                              *)

Timer_new ==
    [div |-> 0, tima |-> 0, tma |-> 0, tac |-> 0, interrupt |-> 0, ticks |-> Wide(0)]

\* the timer is handed cputicks; irq is the interrupt byte it raises meanwhile
Timer_do_cycle(t, cputicks, irq) ==
    [t EXCEPT !.ticks = cputicks, !.interrupt = Or(@, irq)]

Timer_wb(t, a, v) ==
    CASE a = \hFF04 -> [t EXCEPT !.div = 0]
      [] a = \hFF05 -> [t EXCEPT !.tima = v]
      [] a = \hFF06 -> [t EXCEPT !.tma = v]
      [] OTHER -> [t EXCEPT !.tac = v]

Timer_rb(t, a) ==
    CASE a = \hFF04 -> t.div
      [] a = \hFF05 -> t.tima
      [] a = \hFF06 -> t.tma
      [] OTHER -> t.tac

\* the GPU-owned addresses the model keeps a byte for
GpuRep ==
    {\h8000, \h800F, \h8010, \h8020, \h802F, \h8030, \h9FFF, \hFE00, \hFE9F,
     \hFF40, \hFF46, \hFF4D, \hFF4F, \hFF68}

\* the registers of the Color machine among the GPU's
GpuCgbOnly == {\hFF4D, \hFF4F}

\* gbmode is Classic after GPU::classic and Color after GPU::cgb
GPU_new ==
    [mem |-> [a \in GpuRep |-> 0], interrupt |-> 0, ticks |-> Wide(0),
     gbmode |-> "Classic"]

\* the GPU is handed gputicks; irq is the interrupt byte it raises meanwhile
GPU_do_cycle(g, gputicks, irq) ==
    [g EXCEPT !.ticks = gputicks, !.interrupt = Or(@, irq)]

\* outside Color mode the registers of the Color machine ignore writes and
\* read 0xFF
GPU_wb(g, a, v) ==
    IF a \in GpuCgbOnly /\ g.gbmode # "Color" THEN g
    ELSE IF a \in GpuRep THEN [g EXCEPT !.mem[a] = v] ELSE g

GPU_rb(g, a) ==
    IF a \in GpuCgbOnly /\ g.gbmode # "Color" THEN \hFF
    ELSE IF a \in GpuRep THEN g.mem[a] ELSE \hFF

----------------------------------------------------------------------------
(* MMU (mmu.rs) *)

\* fill_random(&mut wram, 42) at the modelled indices
WramPowerOn ==
    (0 :> 149) @@ (1 :> 133) @@ (2 :> 119) @@ (3 :> 198) @@ (4 :> 108) @@
    (5 :> 8) @@ (4095 :> 230) @@ (4096 :> 103) @@
    (4097 :> 62) @@ (8191 :> 100) @@ (8192 :> 240) @@ (8193 :> 79) @@
    (12287 :> 122) @@ (12288 :> 50) @@ (12289 :> 185) @@ (16383 :> 41) @@
    (16384 :> 44) @@ (16385 :> 122) @@ (20479 :> 111) @@ (20480 :> 222) @@
    (20481 :> 147) @@ (24575 :> 77) @@ (24576 :> 72) @@ (24577 :> 5) @@
    (28671 :> 195) @@ (28672 :> 106) @@ (28673 :> 206) @@ (32767 :> 210)

ZramRep == {0, 1} \cup (\h78 .. \h7E)

\* a byte of an array the model keeps only some cells of
CellGet(arr, i) == IF i \in DOMAIN arr THEN arr[i] ELSE 0
CellSet(arr, i, v) == IF i \in DOMAIN arr THEN [arr EXCEPT ![i] = v] ELSE arr

IsGpuAddr(a) ==
    \/ a \in \h8000 .. \h9FFF
    \/ a \in \hFE00 .. \hFE9F
    \/ a \in \hFF40 .. \hFF4F
    \/ a \in \hFF68 .. \hFF6B

IsWram0_whole(a) == a \in \hC000 .. \hDFFF \/ a \in \hE000 .. \hFDFF

IsWram0(a) == a \in \hC000 .. \hCFFF \/ a \in \hE000 .. \hEFFF
IsWramN(a) == a \in \hD000 .. \hDFFF \/ a \in \hF000 .. \hFDFF

IsCgbOnlyRead_but_bank(a) ==
    a \in {\hFF4D, \hFF4F, \hFF6C} \/ a \in \hFF51 .. \hFF55

IsCgbOnlyRead(a) ==
    a \in {\hFF4D, \hFF4F, \hFF6C, \hFF70} \/ a \in \hFF51 .. \hFF55

IsCgbOnlyWrite(a) == IsCgbOnlyRead(a) \/ a \in \hFF76 .. \hFF77

IsUndocumented(a) == a \in \hFF72 .. \hFF73 \/ a \in \hFF75 .. \hFF77

MmuPanicked(m) == [m EXCEPT !.panic = TRUE]

Crashed(m) == m.panic \/ m.mbc.panic

hdma_read(m, a) ==
    IF a \in \hFF51 .. \hFF54 THEN m.hdma[a - \hFF51 + 1]
    ELSE Or(m.hdma_len, IF m.hdma_status = "NoDMA" THEN \h80 ELSE 0)

hdma_write(m, a, v) ==
    CASE a = \hFF51 -> [m EXCEPT !.hdma[1] = v]
      [] a = \hFF52 -> [m EXCEPT !.hdma[2] = And(v, \hF0)]
      [] a = \hFF53 -> [m EXCEPT !.hdma[3] = And(v, \h1F)]
      [] a = \hFF54 -> [m EXCEPT !.hdma[4] = And(v, \hF0)]
      [] OTHER ->
            IF m.hdma_status = "HDMA"
            THEN (IF And(v, \h80) = 0 THEN [m EXCEPT !.hdma_status = "NoDMA"] ELSE m)
            ELSE LET src == Or(Shl(m.hdma[1], 8), m.hdma[2])
                     dst == Or(Or(Shl(m.hdma[3], 8), m.hdma[4]), \h8000)
                 IN  IF ~(src <= \h7FF0 \/ src \in \hA000 .. \hDFF0)
                     THEN MmuPanicked(m)
                     ELSE [m EXCEPT
                             !.hdma_src = src, !.hdma_dst = dst,
                             !.hdma_len = And(v, \h7F),
                             !.hdma_status =
                                 IF And(v, \h80) = \h80 THEN "HDMA" ELSE "GDMA"]

MmuRb(m, a) ==
    IF a <= \h7FFF THEN read_rom(m.mbc, a)
    ELSE IF IsGpuAddr(a) THEN GPU_rb(m.gpu, a)
    ELSE IF a \in \hA000 .. \hBFFF THEN read_ram(m.mbc, a)
    ELSE IF IsWram0(a) THEN CellGet(m.wram, And(a, \h0FFF))
    ELSE IF IsWramN(a)
         THEN CellGet(m.wram, Or(m.wram_bank * \h1000, And(a, \h0FFF)))
    ELSE IF a = \hFF00 THEN Keypad_rb(m.keypad)
    ELSE IF a \in \hFF01 .. \hFF02 THEN Serial_rb(m.serial, a)
    ELSE IF a \in \hFF04 .. \hFF07 THEN Timer_rb(m.timer, a)
    ELSE IF a = \hFF0F THEN Or(m.intf, \hE0)
    ELSE IF a \in \hFF10 .. \hFF3F THEN \hFF
    ELSE IF IsCgbOnlyRead(a) /\ m.gbmode # "Color" THEN \hFF
    ELSE IF IsUndocumented(a) /\ m.gbmode = "Classic" THEN \hFF
    ELSE IF a = \hFF4D
         THEN Or(Or(\h7E, IF m.gbspeed = "Double" THEN \h80 ELSE 0),
                 IF m.speed_switch_req THEN 1 ELSE 0)
    ELSE IF a \in \hFF51 .. \hFF55 THEN hdma_read(m, a)
    ELSE IF a = \hFF70 THEN m.wram_bank
    ELSE IF a \in \hFF72 .. \hFF73 THEN m.undocumented_cgb_regs[a - \hFF72 + 1]
    ELSE IF a = \hFF75 THEN Or(m.undocumented_cgb_regs[3], \h8F)
    ELSE IF a \in \hFF76 .. \hFF77 THEN 0
    ELSE IF a \in \hFF80 .. \hFFFE THEN CellGet(m.zram, And(a, \h007F))
    ELSE IF a = \hFFFF THEN m.inte
    ELSE \hFF

\* the bytes of OAM the model keeps
OamOffs == {0, \h9F}

\* wb(0xFE00 + i, rb(base + i)) for i in 0 .. 0x9F; every one of these writes
\* takes the GPU arm of wb
oamdma(m, value) ==
    LET base == Shl(value, 8)
        bytes == [i \in OamOffs |-> MmuRb(m, base + i)]
    IN  IF \E i \in OamOffs : bytes[i] = PANIC THEN MmuPanicked(m)
        ELSE [m EXCEPT !.gpu.mem =
                 [a \in GpuRep |->
                     IF a - \hFE00 \in OamOffs THEN bytes[a - \hFE00] ELSE @[a]]]

\* env.now: the host clock; env.reply: the serial callback's answer
MmuWb(m, a, v, env) ==
    IF a <= \h7FFF THEN [m EXCEPT !.mbc = write_rom(@, a, v, env.now)]
    ELSE IF IsGpuAddr(a) THEN [m EXCEPT !.gpu = GPU_wb(@, a, v)]
    ELSE IF a \in \hA000 .. \hBFFF
         THEN [m EXCEPT !.mbc = write_ram(@, a, v, env.now)]
    ELSE IF IsWram0(a) THEN [m EXCEPT !.wram = CellSet(@, And(a, \h0FFF), v)]
    ELSE IF IsWramN(a)
         THEN [m EXCEPT !.wram =
                 CellSet(@, Or(m.wram_bank * \h1000, And(a, \h0FFF)), v)]
    ELSE IF a = \hFF00 THEN [m EXCEPT !.keypad = Keypad_wb(@, v)]
    ELSE IF a \in \hFF01 .. \hFF02
         THEN [m EXCEPT !.serial = Serial_wb(@, a, v, env.reply)]
    ELSE IF a \in \hFF04 .. \hFF07 THEN [m EXCEPT !.timer = Timer_wb(@, a, v)]
    ELSE IF a \in \hFF10 .. \hFF3F THEN m
    ELSE IF a = \hFF46 THEN oamdma(m, v)
    ELSE IF IsCgbOnlyWrite(a) /\ m.gbmode # "Color" THEN m
    ELSE IF IsUndocumented(a) /\ m.gbmode = "Classic" THEN m
    ELSE IF a = \hFF4D
         THEN (IF And(v, 1) = 1 THEN [m EXCEPT !.speed_switch_req = TRUE] ELSE m)
    ELSE IF a \in \hFF51 .. \hFF55 THEN hdma_write(m, a, v)
    ELSE IF a = \hFF0F THEN [m EXCEPT !.intf = v]
    ELSE IF a = \hFF70
         THEN [m EXCEPT !.wram_bank = IF And(v, 7) = 0 THEN 1 ELSE And(v, 7)]
    ELSE IF a \in \hFF72 .. \hFF73
         THEN [m EXCEPT !.undocumented_cgb_regs[a - \hFF72 + 1] = v]
    ELSE IF a = \hFF75 THEN [m EXCEPT !.undocumented_cgb_regs[3] = v]
    ELSE IF a \in \hFF80 .. \hFFFE
         THEN [m EXCEPT !.zram = CellSet(@, And(a, \h007F), v)]
    ELSE IF a = \hFFFF THEN [m EXCEPT !.inte = v]
    ELSE m

\* address + 1 on a u16: a panic where overflow is checked, a wrap elsewhere
Succ16(m, a) ==
    IF a = \hFFFF THEN (IF m.overflow_checks THEN PANIC ELSE 0) ELSE a + 1

MmuRw(m, a) ==
    LET lo == MmuRb(m, a)
        a1 == Succ16(m, a)
        hi == IF a1 = PANIC THEN PANIC ELSE MmuRb(m, a1)
    IN  IF lo = PANIC \/ hi = PANIC THEN PANIC ELSE Or(lo, Shl(hi, 8))

MmuWw(m, a, value, env) ==
    LET m1 == MmuWb(m, a, And(value, \hFF), env)
        a1 == Succ16(m, a)
    IN  IF Crashed(m1) THEN m1
        ELSE IF a1 = PANIC THEN MmuPanicked(m1)
        ELSE MmuWb(m1, a1, Shr(value, 8), env)

\* MMU::classic / MMU::cgb with the cartridge `c`; set_initial only writes
\* timer, sound and GPU registers
\* 16 bytes from hdma_src to hdma_dst, then both advance and hdma_len counts
\* down, wrapping from 0 to 0x7F
perform_vramdma_row(m) ==
    IF \E j \in 0 .. 15 : MmuRb(m, m.hdma_src + j) = PANIC THEN MmuPanicked(m)
    ELSE [m EXCEPT
            !.gpu.mem = [a \in GpuRep |->
                            IF a - m.hdma_dst \in 0 .. 15
                            THEN MmuRb(m, m.hdma_src + (a - m.hdma_dst))
                            ELSE @[a]],
            !.hdma_src = @ + \h10, !.hdma_dst = @ + \h10,
            !.hdma_len = IF @ = 0 THEN \h7F ELSE @ - 1]

\* for _ in 0..len { perform_vramdma_row() }
RECURSIVE Rows(_, _)
Rows(m, n) == IF n = 0 \/ Crashed(m) THEN m ELSE Rows(perform_vramdma_row(m), n - 1)

\* the rows are done: the transfer is over
Finish(done, ticks) ==
    [mmu |-> IF Crashed(done) THEN done ELSE [done EXCEPT !.hdma_status = "NoDMA"],
     ticks |-> ticks]

perform_gdma_one_row_short(m) == Finish(Rows(m, m.hdma_len), m.hdma_len * 8)

perform_gdma(m) == Finish(Rows(m, m.hdma_len + 1), (m.hdma_len + 1) * 8)

\* after the row of an HDMA: a length back at 0x7F ends the transfer
AfterRow(row) ==
    [mmu |-> IF ~Crashed(row) /\ row.hdma_len = \h7F
             THEN [row EXCEPT !.hdma_status = "NoDMA"] ELSE row,
     ticks |-> 8]

perform_hdma_without_row(m, may_hdma) ==
    [mmu |-> m, ticks |-> IF may_hdma THEN 8 ELSE 0]

\* may_hdma: what gpu.may_hdma() answers
perform_hdma(m, may_hdma) ==
    IF ~may_hdma THEN [mmu |-> m, ticks |-> 0] ELSE AfterRow(perform_vramdma_row(m))

perform_vramdma(m, may_hdma) ==
    CASE m.hdma_status = "GDMA" -> perform_gdma(m)
      [] m.hdma_status = "HDMA" -> perform_hdma(m, may_hdma)
      [] OTHER -> [mmu |-> m, ticks |-> 0]

\* self.intf |= mem::take(&mut self.<device>.interrupt)
TakeTimer(m) == [m EXCEPT !.intf = Or(@, m.timer.interrupt), !.timer.interrupt = 0]
TakeKeypad_assign(m) == [m EXCEPT !.intf = m.keypad.interrupt, !.keypad.interrupt = 0]

TakeKeypad(m) == [m EXCEPT !.intf = Or(@, m.keypad.interrupt), !.keypad.interrupt = 0]
TakeGpu(m) == [m EXCEPT !.intf = Or(@, m.gpu.interrupt), !.gpu.interrupt = 0]
TakeSerial(m) == [m EXCEPT !.intf = Or(@, m.serial.interrupt), !.serial.interrupt = 0]

\* do_cycle after perform_vramdma left the MMU m: the devices run and their
\* interrupts are collected
Devices(m, cputicks, gputicks, host) ==
    TakeSerial(
        [TakeGpu([TakeKeypad(TakeTimer(
            [m EXCEPT !.timer = Timer_do_cycle(@, cputicks, host.tirq)]))
                EXCEPT !.gpu = GPU_do_cycle(@, gputicks, host.girq)])
            EXCEPT !.sound = IF @.some THEN [@ EXCEPT !.ticks = gputicks] ELSE @])

\* the two sums of do_cycle for a divider and the ticks of the DMA
GpuSum_undivided(ticks, cpudivider, vramticks) == Sum32(ticks, vramticks)

GpuSum(ticks, cpudivider, vramticks) == Sum32(Div32(ticks, cpudivider), vramticks)
CpuSum(ticks, cpudivider, vramticks) == Sum32(ticks, Mul32(vramticks, cpudivider))

Cut32(x) == [x EXCEPT !.hi = @ % 65536]

Cycle(m, gpusum, cpusum, vram, host, checks) ==
    IF Crashed(m) THEN [mmu |-> m, ticks |-> Wide(0), vram |-> vram]
    ELSE IF checks /\ ~(Fits32(gpusum) /\ Fits32(cpusum))
    THEN [mmu |-> MmuPanicked(m), ticks |-> Wide(0), vram |-> vram]
    ELSE [mmu |-> Devices(m, Cut32(cpusum), Cut32(gpusum), host),
          ticks |-> Cut32(gpusum), vram |-> vram]

AfterDma(dma, ticks, cpudivider, host, checks) ==
    Cycle(dma.mmu, GpuSum(ticks, cpudivider, Wide(dma.ticks)),
          CpuSum(ticks, cpudivider, Wide(dma.ticks)), dma.ticks, host, checks)

\* host.may_hdma, host.tirq and host.girq are what the GPU and the timer do
\* during the call; the result is the MMU, the ticks returned and the ticks of
\* the DMA.  The sums are u32: one that does not fit panics where overflow is
\* checked and wraps elsewhere
do_cycle(m, ticks, host) ==
    AfterDma(perform_vramdma(m, host.may_hdma), ticks,
             IF m.gbspeed = "Double" THEN 2 ELSE 1, host, m.overflow_checks)

switch_speed(m) ==
    [m EXCEPT !.gbspeed = IF m.speed_switch_req
                          THEN (IF @ = "Double" THEN "Single" ELSE "Double")
                          ELSE @,
              !.speed_switch_req = FALSE]

MMU_new(c, cgb, cb, checks) ==
    [wram |-> WramPowerOn, zram |-> [i \in ZramRep |-> 0],
     hdma |-> <<0, 0, 0, 0>>, inte |-> 0, intf |-> 0,
     serial |-> Serial_new(cb), timer |-> Timer_new, keypad |-> Keypad_new,
     sound |-> [some |-> FALSE, ticks |-> Wide(0)],
     gpu |-> [GPU_new EXCEPT !.mem[\hFF40] = \h91,
                             !.gbmode = IF ~cgb THEN "Classic"
                                        ELSE IF And(read_rom(c, \h143), \h80) = \h80
                                             THEN "Color" ELSE "ColorAsClassic"],
     hdma_status |-> "NoDMA", hdma_src |-> 0, hdma_dst |-> 0, hdma_len |-> \hFF,
     wram_bank |-> 1, mbc |-> c,
     gbmode |-> IF ~cgb THEN "Classic"
                ELSE IF And(read_rom(c, \h143), \h80) = \h80 THEN "Color"
                ELSE "ColorAsClassic",
     gbspeed |-> "Single", speed_switch_req |-> FALSE,
     undocumented_cgb_regs |-> <<0, 0, 0>>,
     overflow_checks |-> checks, panic |-> FALSE]

----------------------------------------------------------------------------
(* CPU: the interrupt state and the first two phases of a step (cpu.rs)    *)

CPU_new ==
    [pc |-> \h0100, sp |-> \hFFFE, halted |-> FALSE, halt_bug |-> FALSE,
     ime |-> TRUE, setdi |-> 0, setei |-> 0]

RECURSIVE trailing_zeros(_)
trailing_zeros(x) == IF x % 2 = 1 THEN 0 ELSE 1 + trailing_zeros(x \div 2)

update_ime_at_once(cp) ==
    [cp EXCEPT !.ime = IF cp.setei # 0 THEN TRUE ELSE IF cp.setdi # 0 THEN FALSE ELSE @,
               !.setdi = 0, !.setei = 0]

update_ime(cp) ==
    LET c1 == CASE cp.setdi = 2 -> [cp EXCEPT !.setdi = 1]
                [] cp.setdi = 1 -> [cp EXCEPT !.ime = FALSE, !.setdi = 0]
                [] OTHER -> [cp EXCEPT !.setdi = 0]
    IN  CASE c1.setei = 2 -> [c1 EXCEPT !.setei = 1]
          [] c1.setei = 1 -> [c1 EXCEPT !.ime = TRUE, !.setei = 0]
          [] OTHER -> [c1 EXCEPT !.setei = 0]

\* the CPU and the MMU after push_stack(value)
push_stack(cp, m, value, env) ==
    LET sp == wrapping_sub16(cp.sp, 2)
    IN  [cpu |-> [cp EXCEPT !.sp = sp], mmu |-> MmuWw(m, sp, value, env)]

handle_interrupt_asleep(cp, m, env) ==
    IF ~cp.ime \/ And(And(m.inte, m.intf), \h1F) = 0
    THEN [cpu |-> cp, mmu |-> m, ticks |-> 0]
    ELSE LET n == trailing_zeros(And(And(m.inte, m.intf), \h1F))
             p == push_stack([cp EXCEPT !.halted = FALSE, !.ime = FALSE],
                             [m EXCEPT !.intf = And(@, 255 - Shl(1, n))], cp.pc, env)
         IN  IF Crashed(p.mmu) THEN [cpu |-> p.cpu, mmu |-> p.mmu, ticks |-> PANIC]
             ELSE [cpu |-> [p.cpu EXCEPT !.pc = Or(\h0040, Shl(n, 3))],
                   mmu |-> p.mmu, ticks |-> 4]

\* ticks is what handle_interrupt returns (nothing is returned on a panic)
handle_interrupt(cp, m, env) ==
    IF ~cp.ime /\ ~cp.halted THEN [cpu |-> cp, mmu |-> m, ticks |-> 0]
    ELSE LET triggered == And(And(m.inte, m.intf), \h1F)
         IN  IF triggered = 0 THEN [cpu |-> cp, mmu |-> m, ticks |-> 0]
             ELSE IF ~cp.ime
                  THEN [cpu |-> [cp EXCEPT !.halted = FALSE], mmu |-> m, ticks |-> 0]
             ELSE LET n == trailing_zeros(triggered)
                      c1 == [cp EXCEPT !.halted = FALSE, !.ime = FALSE]
                      m1 == [m EXCEPT !.intf = And(@, 255 - Shl(1, n))]
                      p == push_stack(c1, m1, cp.pc, env)
                  IN  IF n >= 5 THEN [cpu |-> c1, mmu |-> MmuPanicked(m), ticks |-> PANIC]
                      ELSE IF Crashed(p.mmu)
                           THEN [cpu |-> p.cpu, mmu |-> p.mmu, ticks |-> PANIC]
                      ELSE [cpu |-> [p.cpu EXCEPT !.pc = Or(\h0040, Shl(n, 3))],
                            mmu |-> p.mmu, ticks |-> 4]

----------------------------------------------------------------------------
(* Inputs of the model *)

Epoch == 1700000000

Clock == Epoch .. Epoch + MaxClock

\* only the MBC3 reads the host clock
ClockOf(c) == IF c.kind = "MBC3" THEN Clock ELSE {Epoch}

\* an image whose header checksum is right
Img(len, cgb, ctype, romsz, ramsz, seed, ramp) ==
    LET d == [len |-> len, cgb |-> cgb, ctype |-> ctype, romsz |-> romsz,
              ramsz |-> ramsz, cksum |-> 0, seed |-> seed, ramp |-> ramp]
    IN  [d EXCEPT !.cksum = ChecksumLoop(d, \h134, 0)]

\* <<length, type, ROM size code, RAM size code>> of the cartridges whose
\* bank switching is explored: every controller, 2 to 512 banks, one with a
\* ROM size code beyond the table
MbcShapes ==
    { <<\h8000, \h00, 0, 0>>,
      <<\h8000, \h01, 0, 0>>, <<\h200000, \h01, 6, 0>>, <<\h8000, \h01, 9, 0>>,
      <<\h8000, \h05, 0, 0>>, <<\h40000, \h06, 3, 0>>,
      <<\h200000, \h11, 6, 0>>,
      <<\h200000, \h19, 6, 0>>, <<\h800000, \h1A, 8, 2>> }

MbcCarts == {Img(t[1], 0, t[2], t[3], t[4], 0, 1) : t \in MbcShapes}

\* the cartridges whose RAM is explored: without RAM, with 8K, with 32K,
\* with and without the clock
RamShapes ==
    { <<\h8000, \h00, 0, 0>>,
      <<\h8000, \h01, 0, 0>>, <<\h8000, \h03, 0, 2>>,
      <<\h8000, \h06, 0, 0>>,
      <<\h8000, \h0F, 0, 0>>, <<\h8000, \h13, 0, 2>>,
      <<\h8000, \h19, 0, 0>>, <<\h8000, \h1B, 0, 3>> }

RamCarts == {Img(t[1], 0, t[2], t[3], t[4], 0, 1) : t \in RamShapes}

\* control-register addresses and the values written to them
CtlAddrs == {\h0000, \h0100, \h2000, \h2100, \h3000, \h4000, \h6000}
CtlVals == {\h00, \h3A, \hA1}
\* bank numbers: 0, multiples of the bank counts, numbers wider than the field
BankVals == {\h00, \h04, \h0A, \h20, \h21, \h80, \h83}

\* the registers that gate and bank the RAM
RamCtlAddrs == {\h0000, \h0100, \h4000, \h6000}

RomAddrs == {\h0000, \h3FFF, \h4000, \h7FFF}
RamAddrs == {\hA000, \hBFFF}
RamVals == {\h5A}

Idle ==
    [op |-> "none", a |-> 0, v |-> 0, ret |-> 0, vec |-> ZeroVec(0),
     host |-> [may_hdma |-> FALSE, tirq |-> 0, girq |-> 0]]

\* the image handed to get_mbc, the flag, and what get_mbc returned: the error
\* ("" for Ok, "none" before the call) and the controller of the cartridge
NoCart == [data |-> Img(0, 0, 0, 0, 0, 0, 0), skip |-> FALSE, err |-> "none",
           kind |-> "none"]

\* what an observer of the calls knows: whether the last write to the RAM gate
\* enabled it, the last values written to the bank-number register (L), the
\* upper-bits register (H) and the mode register (M), whether RAM was stored
\* into since the last check, how many RAM writes there were, the part of the
\* address space the run works on, the position of the CPU inside its step
\* and how many interrupts it serviced, the VRAM DMA last started, the keys
\* the host holds down, the value last written to 0xFF00, and how far the
\* keypad has followed the sequence keydown(Right), wb(0xFF00, 0x10),
\* wb(0xFF00, 0x20) since construction (OffScript once it left it)
Unset == 0 - 1

\* the VRAM DMA last started: its length field, source and destination, and
\* the rows it copied so far (L is Unset when none was started or it was
\* aborted)
OffScript == 0 - 1

\* the stage after a keypad operation: 1 after keydown(Right) on the fresh
\* keypad, 2 after the write of 0x10 that follows, 3 after the write of 0x20
\* that follows
Script(stage, op, x) ==
    CASE stage = 0 /\ op = "keydown" /\ x = "Right" -> 1
      [] stage = 1 /\ op = "wb" /\ x = \h10 -> 2
      [] stage = 2 /\ op = "wb" /\ x = \h20 -> 3
      [] OTHER -> OffScript

\* no component is driven on its own
NoDev == [kind |-> "none"]

NoDma == [L |-> Unset, src |-> 0, dst |-> 0, rows |-> 0]

Obs0 == [gate |-> "off", L |-> Unset, H |-> Unset, M |-> Unset,
         dirty |-> FALSE, fills |-> 0, focus |-> "none", phase |-> "ime",
         pushes |-> 0, dma |-> NoDma, held |-> {}, sel |-> \h30, scn |-> 0]

----------------------------------------------------------------------------
(* The cartridge on its own: the operations of the MBC trait *)

Mbc == mmu.mbc

\* the register of the controller a control write to address a lands in
Register(c, a) ==
    CASE c.kind = "MBC2" ->
            IF a > \h3FFF THEN "none" ELSE IF And(a, \h100) = 0 THEN "gate" ELSE "L"
      [] c.kind = "MBC5" ->
            CASE a <= \h1FFF -> "gate" [] a <= \h2FFF -> "L" [] a <= \h3FFF -> "H"
              [] OTHER -> "none"
      [] c.kind \in {"MBC1", "MBC3"} ->
            CASE a <= \h1FFF -> "gate" [] a <= \h3FFF -> "L"
              [] a <= \h5FFF -> IF c.kind = "MBC1" THEN "H" ELSE "none"
              [] OTHER -> IF c.kind = "MBC1" THEN "M" ELSE "none"
      [] OTHER -> "none"

\* what the control-register write (a, v) tells an observer of the calls
ObsWriteRom(c, a, v) ==
    LET r == Register(c, a)
    IN  [obs EXCEPT
           !.gate = IF r = "gate" THEN (IF v % 16 = 10 THEN "on" ELSE "off") ELSE @,
           !.L = IF r = "L" THEN v ELSE @,
           !.H = IF r = "H" THEN v ELSE @,
           !.M = IF r = "M" THEN v ELSE @]

\* whether write_ram(a, _) has a byte to store into
Stores(c, a) ==
    /\ c.ram_on
    /\ CASE c.kind = "MBC0" -> FALSE
         [] c.kind = "MBC1" ->
               (IF c.banking_mode = 1 THEN c.ram_bank ELSE 0) * \h2000
                   + (a % \h2000) < c.ram.len
         [] c.kind = "MBC3" ->
               \/ ~c.select_rtc /\ c.ram_bank < c.ram_banks
               \/ c.select_rtc /\ c.ram_bank < 5
         [] c.kind = "MBC5" -> MBC5_RamIdx(c, a) < c.ram.len
         [] OTHER -> TRUE

MbcInit ==
    /\ \E d \in MbcCarts : mmu = MMU_new(get_mbc(d, FALSE).mbc, FALSE, FALSE, TRUE)
    /\ cpu = CPU_new
    /\ last = Idle
    /\ obs = Obs0
    /\ cart = NoCart
    /\ dev = NoDev

ReadRom(a) ==
    /\ ~Mbc.panic
    /\ last' = [Idle EXCEPT !.op = "read_rom", !.a = a, !.ret = read_rom(Mbc, a)]
    /\ mmu' = IF read_rom(Mbc, a) = PANIC THEN [mmu EXCEPT !.mbc = Panicked(@)] ELSE mmu
    /\ UNCHANGED <<cpu, obs, cart, dev>>

ReadRam(a) ==
    /\ ~Mbc.panic
    /\ last' = [Idle EXCEPT !.op = "read_ram", !.a = a, !.ret = read_ram(Mbc, a)]
    /\ mmu' = IF read_ram(Mbc, a) = PANIC THEN [mmu EXCEPT !.mbc = Panicked(@)] ELSE mmu
    /\ UNCHANGED <<cpu, obs, cart, dev>>

WriteRom(a, v, now) ==
    /\ ~Mbc.panic
    /\ mmu' = [mmu EXCEPT !.mbc = write_rom(@, a, v, now)]
    /\ obs' = ObsWriteRom(Mbc, a, v)
    /\ last' = [Idle EXCEPT !.op = "write_rom"]
    /\ dev' = IF dev.kind = "rtc"
              THEN [dev EXCEPT !.a = a, !.v = v,
                               !.prev = IF a >= \h6000 THEN v ELSE @]
              ELSE dev
    /\ UNCHANGED <<cpu, cart>>

WriteRam(a, v, now) ==
    /\ ~Mbc.panic
    /\ obs.fills < MaxFill
    /\ mmu' = [mmu EXCEPT !.mbc = write_ram(@, a, v, now)]
    /\ obs' = [obs EXCEPT !.dirty = @ \/ Stores(Mbc, a), !.fills = @ + 1]
    /\ last' = [Idle EXCEPT !.op = "write_ram"]
    /\ UNCHANGED <<cpu, cart, dev>>

DumpRam ==
    /\ ~Mbc.panic
    /\ last' = [Idle EXCEPT !.op = "dump_ram", !.vec = dump_ram(Mbc)]
    /\ UNCHANGED <<mmu, cpu, obs, cart, dev>>

\* save files offered to load_ram: the current dump, the dump with one byte
\* changed, with another timestamp, one byte shorter, one byte longer, empty
SaveFiles(c) ==
    LET d == dump_ram(c)
        first == IF c.kind = "MBC3" THEN 8 ELSE 0
    IN  {d, ZeroVec(0), [d EXCEPT !.len = @ + 1]}
        \cup (IF d.len > first
              THEN {VecSet(d, first, \h5A),
                    [len |-> d.len - 1,
                     at |-> [i \in {j \in DOMAIN d.at : j < d.len - 1} |-> d.at[i]]]}
              ELSE {})
        \cup (IF c.kind = "MBC3" THEN {VecSet(d, 7, \h2A)} ELSE {})

LoadRam(ram_data) ==
    /\ ~Mbc.panic
    /\ mmu' = [mmu EXCEPT !.mbc = load_ram(@, ram_data).mbc]
    /\ last' = [Idle EXCEPT !.op = "load_ram", !.vec = ram_data,
                            !.ret = IF load_ram(Mbc, ram_data).ok THEN 1 ELSE 0]
    /\ UNCHANGED <<cpu, obs, cart, dev>>

CheckAndReset ==
    /\ ~Mbc.panic
    /\ mmu' = [mmu EXCEPT !.mbc = check_and_reset_ram_updated(@).mbc]
    /\ last' = [Idle EXCEPT !.op = "check_and_reset_ram_updated",
                            !.ret = IF check_and_reset_ram_updated(Mbc).ret THEN 1 ELSE 0]
    /\ obs' = [obs EXCEPT !.dirty = FALSE]
    /\ UNCHANGED <<cpu, cart, dev>>

MbcNext ==
    \/ \E a \in RomAddrs : ReadRom(a)
    \/ \E a \in CtlAddrs, v \in BankVals, now \in ClockOf(Mbc) : WriteRom(a, v, now)

SpecMbc == MbcInit /\ [][MbcNext]_vars

RamInit ==
    /\ \E d \in RamCarts : mmu = MMU_new(get_mbc(d, FALSE).mbc, FALSE, FALSE, TRUE)
    /\ cpu = CPU_new
    /\ last = Idle
    /\ obs = Obs0
    /\ cart = NoCart
    /\ dev = NoDev

RamNext ==
    \/ \E a \in RamCtlAddrs, v \in CtlVals, now \in ClockOf(Mbc) : WriteRom(a, v, now)
    \/ ReadRom(\h4000)
    \/ \E a \in RamAddrs : ReadRam(a)
    \/ \E a \in RamAddrs, v \in RamVals, now \in ClockOf(Mbc) : WriteRam(a, v, now)
    \/ DumpRam
    \/ \E d \in SaveFiles(Mbc) : LoadRam(d)
    \/ CheckAndReset

SpecRam == RamInit /\ [][RamNext]_vars

----------------------------------------------------------------------------
(* Bank switching *)

\* the bank-number field of the ROM bank mapped at 0x4000-0x7FFF
BankField(c) ==
    CASE c.kind = "MBC1" -> And(c.rom_bank, \h1F)
      [] c.kind = "MBC2" -> And(c.rom_bank, \h0F)
      [] OTHER -> And(c.rom_bank, \h7F)

\* MBC5: after 0 was written to 0x2000-0x2FFF with the high bit clear, a read
\* at 0x4000 + k returns rom[k]
Mbc5BankZero ==
    (/\ Mbc.kind = "MBC5" /\ obs.L = 0 /\ (obs.H = Unset \/ obs.H % 2 = 0)
     /\ last.op = "read_rom" /\ last.a >= \h4000)
        => last.ret = RomAt(Mbc.rom, last.a - \h4000)

\* C4 as stated: on MBC1, MBC2 and MBC3 the bank-number field is never 0,
\* whatever the ROM size and whatever was written, a write of 0 to the
\* bank-number register selects 1, and on MBC5 a write of 0 selects bank 0
C4_BankFieldNeverZero ==
    /\ Mbc.kind \in {"MBC1", "MBC2", "MBC3"} => BankField(Mbc) # 0
    /\ (Mbc.kind \in {"MBC1", "MBC2", "MBC3"} /\ obs.L = 0) => BankField(Mbc) = 1
    /\ Mbc5BankZero

\* C4 amended: the bank-number field is never 0 on MBC3, on an MBC1 of at
\* least 32 banks and on an MBC2 of at least 16 banks (a smaller ROM reduces
\* the bank modulo the bank count, which may give 0); after a write of 0 to
\* the bank-number register the field is 1, on MBC3 and on an MBC1 or MBC2
\* whose ROM size code is in the table (0 .. 8); on MBC5 a write of 0 with the
\* high bit clear selects bank 0
C4_BankFieldNeverZeroOnLargeRoms ==
    /\ (\/ Mbc.kind = "MBC3"
        \/ Mbc.kind = "MBC1" /\ Mbc.rom_banks >= 32
        \/ Mbc.kind = "MBC2" /\ Mbc.rom_banks >= 16) => BankField(Mbc) # 0
    /\ (/\ Mbc.kind \in {"MBC1", "MBC2", "MBC3"} /\ obs.L = 0
        /\ (Mbc.kind = "MBC3" \/ Mbc.rom_banks > 0)) => BankField(Mbc) = 1
    /\ Mbc5BankZero

\* a 128-bank MBC1 whose bank-number register was written 0 after the upper
\* bits were set to 3 maps bank 0x61
C4_Witness ==
    /\ Mbc.kind = "MBC1" /\ Mbc.rom_banks = 128
    /\ obs.L = 0 /\ obs.H = \h83 /\ Mbc.rom_bank = \h61

\* the bank of a 128-bank MBC1 that the writes of L and H select
Mbc1High == Shl(And(obs.H, 3), 5)
Mbc1Low == IF And(obs.L, \h1F) = 0 THEN 1 ELSE And(obs.L, \h1F)

\* C5: on a 128-bank MBC1, after L was written to 0x2000-0x3FFF and H to
\* 0x4000-0x5FFF, a read at 0x4000 + k returns
\* rom[(((H & 3) << 5) | L') * 0x4000 + k]; a read at k < 0x4000 returns rom[k]
\* while the last mode write had bit 0 clear and rom[((H & 3) << 5) * 0x4000 + k]
\* while it had bit 0 set
C5_Mbc1Banking ==
    (/\ Mbc.kind = "MBC1" /\ Mbc.rom_banks = 128
     /\ obs.L # Unset /\ obs.H # Unset /\ last.op = "read_rom")
        => IF last.a >= \h4000
           THEN last.ret = RomAt(Mbc.rom, Or(Mbc1High, Mbc1Low) * \h4000
                                              + (last.a - \h4000))
           ELSE obs.M # Unset =>
                  last.ret = RomAt(Mbc.rom,
                                   (IF obs.M % 2 = 0 THEN 0 ELSE Mbc1High) * \h4000
                                       + last.a)

\* a read of the low region in mode 1 that returned a byte of bank 0x60
C5_Witness ==
    /\ Mbc.kind = "MBC1" /\ Mbc.rom_banks = 128
    /\ obs.L = \h0A /\ obs.H = \h83 /\ obs.M = \h21
    /\ last.op = "read_rom" /\ last.a = \h3FFF
    /\ last.ret = RomAt(Mbc.rom, \h60 * \h4000 + \h3FFF)
    /\ last.ret # RomAt(Mbc.rom, \h3FFF)

----------------------------------------------------------------------------
(* Cartridge RAM *)

Gated == Mbc.kind \in {"MBC1", "MBC2", "MBC3", "MBC5"}

\* the RAM and the clock registers of the cartridge
RamContents(c) == <<c.ram, c.rtc_ram, c.rtc_ram_latch, c.rtc_zero>>

\* C6: RAM is enabled iff the last write to the gate register had low nibble
\* 0xA (it starts disabled); while it is disabled read_ram returns 0xFF
\* (MBC1, MBC2, MBC3) or 0 (MBC5)
C6_Gate ==
    Gated =>
      /\ Mbc.ram_on <=> obs.gate = "on"
      /\ (obs.gate = "off" /\ last.op = "read_ram")
            => last.ret = IF Mbc.kind = "MBC5" THEN 0 ELSE \hFF

\* C6: while RAM is disabled, write_ram leaves the RAM contents and the
\* ram-updated flag unchanged
C6_DisabledWrite ==
    (Gated /\ obs.gate = "off" /\ last'.op = "write_ram")
        => /\ RamContents(mmu'.mbc) = RamContents(Mbc)
           /\ mmu'.mbc.ram_updated = Mbc.ram_updated

C6_RamGating == []C6_Gate /\ [][C6_DisabledWrite]_vars

\* RAM that holds a stored byte, was disabled by a non-zero value and then read
C6_Witness ==
    /\ Mbc.kind = "MBC1" /\ obs.gate = "off" /\ ~Mbc.ram_on
    /\ Mbc.ram.len > 0 /\ VecGet(Mbc.ram, 0) = \h5A
    /\ last.op = "read_ram" /\ last.a = \hA000 /\ last.ret = \hFF

ExpectedLen(c) == c.ram.len + (IF c.kind = "MBC3" THEN 8 ELSE 0)

\* C7: load_ram(dump_ram()) succeeds and leaves the RAM and rtc_zero as they
\* were; load_ram of data of another length than the RAM size (plus 8 for
\* MBC3) fails and changes nothing
C7_Load ==
    (Gated /\ last'.op = "load_ram")
        => /\ last'.vec = dump_ram(Mbc)
                => /\ last'.ret = 1
                   /\ mmu'.mbc.ram = Mbc.ram
                   /\ mmu'.mbc.rtc_zero = Mbc.rtc_zero
           /\ last'.vec.len # ExpectedLen(Mbc)
                => last'.ret = 0 /\ mmu'.mbc = Mbc

C7_DumpLoadIdentity == [][C7_Load]_vars

\* an MBC3 with a clock, a timestamp of several bytes and a saved byte in RAM
\* has loaded its own dump
C7_Witness ==
    /\ Mbc.kind = "MBC3" /\ Mbc.rtc_zero.some /\ Mbc.rtc_zero.v > 65535
    /\ last.op = "load_ram" /\ last.ret = 1 /\ last.vec = dump_ram(Mbc)

\* C8: check_and_reset_ram_updated returns true iff write_ram stored a byte
\* since the previous call, and false when called twice in a row; no other
\* operation sets the flag
C8_Flag ==
    /\ last'.op = "check_and_reset_ram_updated"
          => /\ (last'.ret = 1) <=> obs.dirty
             /\ ~mmu'.mbc.ram_updated
             /\ last.op = "check_and_reset_ram_updated" => last'.ret = 0
    /\ last'.op \in {"read_rom", "read_ram", "write_rom", "dump_ram", "load_ram"}
          => (mmu'.mbc.ram_updated => Mbc.ram_updated)

C8_RamUpdated == [][Gated => C8_Flag]_vars

\* a check that returned true, after a store into a clock register
C8_Witness ==
    /\ Mbc.kind = "MBC3" /\ Mbc.ram.len = 0 /\ obs.fills > 0
    /\ last.op = "check_and_reset_ram_updated" /\ last.ret = 1

----------------------------------------------------------------------------
(* The cartridge constructor: images of any header handed to get_mbc and   *)
(* to check_checksum                                                       *)

ImageLens == {\h14F, \h150, \h8000}
ImageTypes == {\h00, \h01, \h04, \h06, \h0E, \h13, \h1E, \h1F}

\* images filled with one byte (also in the header fields the code reads),
\* of every cartridge type and every checksum byte
Images ==
    {[len |-> n, cgb |-> s, ctype |-> t, romsz |-> s, ramsz |-> s, cksum |-> k,
      seed |-> s, ramp |-> 0] :
        n \in ImageLens, t \in ImageTypes, k \in 0 .. 255, s \in 0 .. MaxSeed}

CartInit ==
    /\ \E d \in Images : cart = [NoCart EXCEPT !.data = d]
    /\ dev = NoDev
    /\ mmu = MMU_new(NoMbc(NoCart.data), FALSE, FALSE, TRUE)
    /\ cpu = CPU_new
    /\ last = Idle
    /\ obs = Obs0

GetMbc(skip_checksum) ==
    /\ UNCHANGED dev
    /\ cart' = [cart EXCEPT !.skip = skip_checksum,
                            !.err = get_mbc(cart.data, skip_checksum).err,
                            !.kind = get_mbc(cart.data, skip_checksum).mbc.kind]
    /\ last' = Idle
    /\ UNCHANGED <<mmu, cpu, obs>>

\* check_checksum reads data[0x134 ..= 0x14D]
CheckChecksum ==
    /\ cart.data.len > \h14D
    /\ last' = [Idle EXCEPT !.op = "check_checksum",
                            !.ret = IF check_checksum(cart.data) = "" THEN 1 ELSE 0]
    /\ cart' = [NoCart EXCEPT !.data = cart.data]
    /\ UNCHANGED dev
    /\ UNCHANGED <<mmu, cpu, obs>>

CartNext ==
    \/ \E skip_checksum \in BOOLEAN : GetMbc(skip_checksum)
    \/ CheckChecksum

SpecCart == CartInit /\ [][CartNext]_vars

\* the sum over i in 0x134 ..= 0x14C of data[i] + 1
RECURSIVE HeaderSum(_, _)
HeaderSum(data, i) ==
    IF i > \h14C THEN 0 ELSE RomAt(data, i) + 1 + HeaderSum(data, i + 1)

\* (- HeaderSum) mod 256
ExpectedChecksum(data) == (256 - (HeaderSum(data, \h134) % 256)) % 256

SupportedTypes == (0 .. 3) \cup (5 .. 6) \cup (\h0F .. \h13) \cup (\h19 .. \h1E)

KindOfType(t) ==
    CASE t = 0 -> "MBC0" [] t \in 1 .. 3 -> "MBC1" [] t \in 5 .. 6 -> "MBC2"
      [] t \in \h0F .. \h13 -> "MBC3" [] OTHER -> "MBC5"

\* C9: get_mbc reports an image shorter than 0x150 bytes as too small; else,
\* unless skip_checksum, a header checksum mismatch as a bad checksum, even
\* when the type is unsupported; else a type outside the supported set as
\* unsupported; else it returns the cartridge
C9_GetMbcOrder ==
    cart.err # "none" =>
        LET d == cart.data
        IN  IF d.len < \h150 THEN cart.err = "rom size too small"
            ELSE IF ~cart.skip /\ d.cksum # ExpectedChecksum(d)
                 THEN cart.err = "cartridge checksum is invalid"
            ELSE IF d.ctype \notin SupportedTypes
                 THEN cart.err = "unsupported mbc type"
            ELSE cart.err = "" /\ cart.kind = KindOfType(d.ctype)

\* an image of an unsupported type with a wrong checksum was rejected for
\* its checksum
C9_Witness ==
    /\ cart.err = "cartridge checksum is invalid" /\ ~cart.skip
    /\ cart.data.ctype = \h04 /\ cart.data.len = \h8000

\* C10: check_checksum accepts iff data[0x14D] = (- sum of (data[i] + 1))
\* mod 256; of an all-zero image the accepted byte is 0xE7
C10_Checksum ==
    last.op = "check_checksum" =>
        /\ (last.ret = 1) <=> (cart.data.cksum = ExpectedChecksum(cart.data))
        /\ (cart.data.seed = 0 /\ cart.data.ctype = 0)
              => ((last.ret = 1) <=> (cart.data.cksum = \hE7))

\* the all-zero image of 0x150 bytes with 0xE7 at 0x14D was accepted
C10_Witness ==
    /\ last.op = "check_checksum" /\ last.ret = 1
    /\ cart.data.seed = 0 /\ cart.data.ctype = 0 /\ cart.data.len = \h150
    /\ cart.data.cksum = \hE7

----------------------------------------------------------------------------
(* The bus: rb, wb, rw, ww of the MMU.  A run works on one part of the     *)
(* address space, on a machine built for that part.                        *)

Plain(flag) == Img(\h8000, flag, 0, 0, 0, 0, 1)

\* a 0x150-byte ROM, cartridges with and without RAM, a ROM size code beyond
\* the table
BusShapes ==
    { <<\h150, \h00, 0, 0>>,
      <<\h8000, \h01, 0, 0>>, <<\h8000, \h03, 0, 2>>, <<\h8000, \h01, 9, 0>>,
      <<\h8000, \h05, 0, 0>>,
      <<\h8000, \h0F, 0, 0>>, <<\h8000, \h13, 0, 2>>,
      <<\h8000, \h19, 0, 0>>, <<\h8000, \h1B, 0, 2>> }

BusCarts == {Img(t[1], 0, t[2], t[3], t[4], 0, 1) : t \in BusShapes}

Machine(focus, d, cgb, cb, checks) ==
    [focus |-> focus, data |-> d, cgb |-> cgb, cb |-> cb, checks |-> checks]

\* MMU::cgb makes a Color machine of a ROM with bit 7 of 0x143 set and a
\* ColorAsClassic machine of any other; MMU::classic makes a Classic machine
Modes == {<<\h80, TRUE>>, <<0, TRUE>>, <<0, FALSE>>}

Machines ==
    {Machine("cart", d, FALSE, FALSE, TRUE) : d \in BusCarts}
    \cup {Machine("wram", Plain(f[1]), f[2], FALSE, TRUE) : f \in Modes}
    \cup {Machine("io", Plain(0), FALSE, cb, TRUE) : cb \in BOOLEAN}
    \cup {Machine("hram", Plain(0), FALSE, FALSE, checks) : checks \in BOOLEAN}
    \cup {Machine("cgb", Plain(f[1]), f[2], FALSE, TRUE) : f \in Modes}
    \cup {Machine("hdma", Plain(\h80), TRUE, FALSE, TRUE)}
    \cup {Machine("misc", Plain(0), FALSE, FALSE, TRUE)}

\* the addresses of each part
Addrs(focus) ==
    CASE focus = "cart" -> {\h0000, \h2000, \h4000, \hA000}
      [] focus = "wram" -> {\hC000, \hD000, \hE000, \hFF70}
      [] focus = "io" -> {\hFF00, \hFF01, \hFF02, \hFF0F}
      [] focus = "hram" -> {\hFF80, \hFFFE, \hFFFF}
      [] focus = "cgb" -> {\hFF51, \hFF55, \hFF6C, \hFF72, \hFF75, \hFF76}
      [] focus = "hdma" -> {\hFF52, \hFF53, \hFF54}
      [] OTHER -> {\h8000, \hFF40, \hFF46, \hFF04, \hFF10, \hFEA0, \hFF03, \hFF7F}

\* the addresses of 16-bit accesses
WordAddrs(focus) ==
    CASE focus = "cart" -> {\h1FFF, \hBFFF}
      [] focus = "wram" -> {\hCFFF}
      [] focus = "io" -> {\hFF01}
      [] focus = "hram" -> {\hFFFE, \hFFFF}
      [] focus = "cgb" -> {\hFF51}
      [] focus = "hdma" -> {\hFF53}
      [] OTHER -> {\hFEFF}

BusVals == {\h0A, \h83}
WordVals == {\h830A, \h0A83}

\* what the serial callback may answer
Replies(m) == IF m.serial.callback THEN {NoReply, \h42} ELSE {NoReply}

Envs(m) == [now : ClockOf(m.mbc), reply : Replies(m)]

\* the MMU before a bus operation: no callback was called by it yet
Before(m) == [m EXCEPT !.serial.cb_called = FALSE, !.serial.cb_arg = 0]

\* a store into cartridge RAM counts against MaxFill
MayWrite(a) == a \in \hA000 .. \hBFFF => obs.fills < MaxFill
Filled(a) ==
    [obs EXCEPT !.fills = IF a \in \hA000 .. \hBFFF THEN @ + 1 ELSE @,
                !.scn = IF a = \hFF00 THEN OffScript ELSE @]

BusInit ==
    /\ \E k \in Machines :
          /\ mmu = MMU_new(get_mbc(k.data, FALSE).mbc, k.cgb, k.cb, k.checks)
          /\ obs = [Obs0 EXCEPT !.focus = k.focus]
    /\ cpu = CPU_new
    /\ last = Idle
    /\ cart = NoCart
    /\ dev = NoDev

Rb(a) ==
    /\ ~Crashed(mmu)
    /\ last' = [Idle EXCEPT !.op = "rb", !.a = a, !.ret = MmuRb(mmu, a)]
    /\ mmu' = IF MmuRb(mmu, a) = PANIC THEN MmuPanicked(Before(mmu)) ELSE Before(mmu)
    /\ UNCHANGED <<cpu, obs, cart, dev>>

Wb(a, v, env) ==
    /\ ~Crashed(mmu)
    /\ MayWrite(a)
    /\ mmu' = MmuWb(Before(mmu), a, v, env)
    /\ last' = [Idle EXCEPT !.op = "wb", !.a = a, !.v = v]
    /\ obs' = Filled(a)
    /\ UNCHANGED <<cpu, cart, dev>>

Rw(a) ==
    /\ ~Crashed(mmu)
    /\ last' = [Idle EXCEPT !.op = "rw", !.a = a, !.ret = MmuRw(mmu, a)]
    /\ mmu' = IF MmuRw(mmu, a) = PANIC THEN MmuPanicked(Before(mmu)) ELSE Before(mmu)
    /\ UNCHANGED <<cpu, obs, cart, dev>>

Ww(a, value, env) ==
    /\ ~Crashed(mmu)
    /\ MayWrite(a)
    /\ mmu' = MmuWw(Before(mmu), a, value, env)
    /\ last' = [Idle EXCEPT !.op = "ww", !.a = a]
    /\ obs' = Filled(a)
    /\ UNCHANGED <<cpu, cart, dev>>

\* wb(a, rb(a))
WriteBack(a, env) ==
    /\ ~Crashed(mmu)
    /\ MayWrite(a)
    /\ mmu' = IF MmuRb(mmu, a) = PANIC THEN MmuPanicked(Before(mmu))
              ELSE MmuWb(Before(mmu), a, MmuRb(mmu, a), env)
    /\ last' = [Idle EXCEPT !.op = "write_back", !.a = a, !.ret = MmuRb(mmu, a)]
    /\ obs' = Filled(a)
    /\ UNCHANGED <<cpu, cart, dev>>

\* the host presses and releases keys
KeyDown(key) ==
    /\ ~Crashed(mmu) /\ obs.focus \in {"io", "keys"}
    /\ mmu' = [Before(mmu) EXCEPT !.keypad = Keypad_keydown(@, key)]
    /\ last' = [Idle EXCEPT !.op = "keydown"]
    /\ obs' = [obs EXCEPT !.held = @ \cup {key},
                          !.scn = Script(@, "keydown", key)]
    /\ UNCHANGED <<cpu, cart, dev>>

KeyUp(key) ==
    /\ ~Crashed(mmu) /\ obs.focus \in {"io", "keys"}
    /\ mmu' = [Before(mmu) EXCEPT !.keypad = Keypad_keyup(@, key)]
    /\ last' = [Idle EXCEPT !.op = "keyup"]
    /\ obs' = [obs EXCEPT !.held = @ \ {key}, !.scn = OffScript]
    /\ UNCHANGED <<cpu, cart, dev>>

Next ==
    \/ \E a \in Addrs(obs.focus) : Rb(a)
    \/ \E a \in Addrs(obs.focus), v \in BusVals, env \in Envs(mmu) : Wb(a, v, env)
    \/ \E a \in WordAddrs(obs.focus) : Rw(a)
    \/ \E a \in WordAddrs(obs.focus), v \in WordVals, env \in Envs(mmu) : Ww(a, v, env)
    \/ \E a \in Addrs(obs.focus), env \in Envs(mmu) : WriteBack(a, env)
    \/ \E key \in {"Right", "Start"} : KeyDown(key)
    \/ \E key \in {"Right", "Start"} : KeyUp(key)

Spec == BusInit /\ [][Next]_vars


\* C2: no bus operation panics, whatever the cartridge and the state
C2_BusNeverFails == ~Crashed(mmu)

\* the state a later bus operation can depend on: bits 5-7 of IF, bits 1-6 of
\* the serial control byte and the bits of the third scratch register that
\* rb sets are never read back; ram_updated is not read through the bus
Visible(m) ==
    [m EXCEPT !.intf = And(@, \h1F),
              !.serial.control = Or(@, \h7E),
              !.serial.cb_called = FALSE, !.serial.cb_arg = 0,
              !.undocumented_cgb_regs[3] = Or(@, \h8F),
              !.mbc.ram_updated = FALSE]

\* wb(a, rb(a)) changed nothing visible, started no DMA, changed no bank
\* register and called no callback
NoOp == /\ Visible(mmu') = Visible(mmu)
        /\ ~mmu'.serial.cb_called

\* C3 as stated: for every address a, a wb(a, rb(a)) that returns leaves the
\* externally visible state unchanged
C3_WriteBackAnywhere ==
    [][(last'.op = "write_back" /\ ~Crashed(mmu')) => NoOp]_vars

\* the addresses whose write-back the code in the tree makes a no-op: not the
\* cartridge (0x0000-0x7FFF, 0xA000-0xBFFF), not 0xFF02 and 0xFF55, and not
\* the GPU's and the timer's, whose code is elsewhere
SafeAddr(a) ==
    /\ a > \h7FFF /\ a \notin \hA000 .. \hBFFF
    /\ a \notin {\hFF02, \hFF55}
    /\ ~IsGpuAddr(a) /\ a \notin \hFF04 .. \hFF07

\* C3 amended: wb(a, rb(a)) leaves the visible state unchanged for a in work
\* RAM and its echo, high RAM, IE, IF, the joypad and serial data registers,
\* 0xFF51-0xFF54, 0xFF70, 0xFF72-0xFF77, the sound range of a machine
\* without sound unit, and the unmapped addresses
C3_WriteBackStorage ==
    [][(last'.op = "write_back" /\ SafeAddr(last'.a))
          => (~Crashed(mmu') /\ NoOp)]_vars

\* a Color machine that selected work RAM bank 3 wrote 0xFF70 back
C3_Witness ==
    /\ last.op = "write_back" /\ last.a = \hFF70 /\ last.ret = 3
    /\ mmu.gbmode = "Color" /\ mmu.wram_bank = 3

----------------------------------------------------------------------------
(* The CPU step (get_ticks): update_ime, handle_interrupt, then the        *)
(* instruction.  The instruction decoder is not part of the tree (call is  *)
(* a stub); the instructions that touch the interrupt state are taken from *)
(* the specification.                                                      *)

StackTops == {\hFFFE, \hC006, \h0001}
Targets == {\h1234}
Instructions ==
    {[i |-> "NOP", nn |-> 0], [i |-> "EI", nn |-> 0], [i |-> "DI", nn |-> 0],
     [i |-> "HALT", nn |-> 0]}
    \cup {[i |-> "LD SP", nn |-> t] : t \in StackTops}
    \cup {[i |-> "JP", nn |-> t] : t \in Targets}

\* the effect of one instruction on the CPU
call(cp, ins) ==
    CASE ins.i = "EI" -> [cp EXCEPT !.setei = 2]
      [] ins.i = "DI" -> [cp EXCEPT !.setdi = 2]
      [] ins.i = "HALT" -> [cp EXCEPT !.halted = TRUE]
      [] ins.i = "LD SP" -> [cp EXCEPT !.sp = ins.nn]
      [] ins.i = "JP" -> [cp EXCEPT !.pc = ins.nn]
      [] OTHER -> cp

IrqVals == {\h00, \h14, \h1F}

CpuEnv == [now |-> Epoch, reply |-> NoReply]

CpuInit ==
    /\ \E checks \in BOOLEAN :
          mmu = MMU_new(get_mbc(Plain(0), FALSE).mbc, FALSE, FALSE, checks)
    /\ cpu = CPU_new
    /\ last = Idle
    /\ obs = Obs0
    /\ cart = NoCart
    /\ dev = NoDev

\* the host raises interrupt requests and the program enables them
WriteIrq(a, v) ==
    /\ obs.phase = "ime" /\ ~Crashed(mmu)
    /\ mmu' = MmuWb(mmu, a, v, CpuEnv)
    /\ last' = Idle
    /\ UNCHANGED <<cpu, obs, cart, dev>>

UpdateIme ==
    /\ obs.phase = "ime" /\ ~Crashed(mmu)
    /\ cpu' = update_ime(cpu)
    /\ obs' = [obs EXCEPT !.phase = "int"]
    /\ last' = [Idle EXCEPT !.op = "update_ime",
                            !.ret = IF update_ime(cpu).ime # cpu.ime THEN 1 ELSE 0]
    /\ UNCHANGED <<mmu, cart, dev>>

HandleInterrupt ==
    /\ obs.phase = "int"
    /\ cpu.ime /\ And(And(mmu.inte, mmu.intf), \h1F) # 0 => obs.pushes < MaxPush
    /\ LET r == handle_interrupt(cpu, mmu, CpuEnv)
       IN  /\ cpu' = r.cpu
           /\ mmu' = r.mmu
           /\ last' = [Idle EXCEPT !.op = "handle_interrupt", !.ret = r.ticks,
                                   !.v = IF cpu.halted THEN 1 ELSE 0]
           /\ obs' = [obs EXCEPT
                        !.phase = IF r.ticks = 0 THEN "exec" ELSE "ime",
                        !.pushes = IF r.cpu.sp # cpu.sp THEN @ + 1 ELSE @]
    /\ UNCHANGED <<cart, dev>>

\* if self.halted { 1 } else { self.call() }
Execute(ins) ==
    /\ obs.phase = "exec"
    /\ cpu' = IF cpu.halted THEN cpu ELSE call(cpu, ins)
    /\ obs' = [obs EXCEPT !.phase = "ime"]
    /\ last' = IF cpu.halted THEN [Idle EXCEPT !.op = "halted", !.ret = 1] ELSE Idle
    /\ UNCHANGED <<mmu, cart, dev>>

CpuNext ==
    \/ \E a \in {\hFF0F, \hFFFF}, v \in IrqVals : WriteIrq(a, v)
    \/ UpdateIme
    \/ HandleInterrupt
    \/ \E ins \in Instructions : Execute(ins)

SpecCpu == CpuInit /\ [][CpuNext]_vars

\* the interrupt phase of the step that has just run
InterruptPhase == obs.phase = "int" /\ obs'.phase # "int"

Triggered == And(And(mmu.inte, mmu.intf), \h1F)

\* addresses backed by work RAM or high RAM
StackRam(a) == IsWram0(a) \/ IsWramN(a) \/ a \in \hFF80 .. \hFFFE

\* the byte b of a pushed word reads back from a when a is RAM
Pushed(m, a, b) == StackRam(a) => MmuRb(m, a) = b

\* C1: an interrupt is serviced iff IME is on and IE & IF & 0x1F is not 0;
\* servicing clears halted and IME, clears the lowest set bit n of it in IF
\* and no other, lowers SP by 2, stores the old PC little-endian at the new
\* SP, sets PC to 0x40 | (n << 3) and returns 4 ticks; otherwise IF, IME, PC
\* and SP are left as they were
C1_Step ==
    InterruptPhase =>
        IF cpu.ime /\ Triggered # 0
        THEN LET n == trailing_zeros(Triggered)
                 sp == wrapping_sub16(cpu.sp, 2)
             IN  /\ last'.ret = 4
                 /\ ~cpu'.halted /\ ~cpu'.ime
                 /\ mmu'.intf = mmu.intf - Shl(1, n)
                 /\ cpu'.sp = sp
                 /\ Pushed(mmu', sp, cpu.pc % 256)
                 /\ Pushed(mmu', (sp + 1) % 65536, cpu.pc \div 256)
                 /\ cpu'.pc = \h40 + 8 * n
        ELSE /\ mmu'.intf = mmu.intf /\ cpu'.ime = cpu.ime
             /\ cpu'.pc = cpu.pc /\ cpu'.sp = cpu.sp

C1_InterruptPhase == [][C1_Step]_vars

----------------------------------------------------------------------------
(* The machine between CPU steps: bus writes, do_cycle, switch_speed and   *)
(* the keys, on machines that each work on one part of the MMU.            *)

SysMachines ==
    {Machine("oam", Plain(0), FALSE, FALSE, TRUE)}
    \cup {Machine("speed", Plain(f[1]), f[2], FALSE, TRUE) : f \in Modes}
    \cup {Machine("dma", Plain(\h80), TRUE, FALSE, checks) : checks \in BOOLEAN}
    \cup {Machine("dst", Plain(\h80), TRUE, FALSE, TRUE)}
    \cup {Machine("io", Plain(0), FALSE, TRUE, TRUE)}
    \cup {Machine("serial", Plain(0), FALSE, cb, TRUE) : cb \in BOOLEAN}
    \cup {Machine("keys", Plain(0), FALSE, FALSE, TRUE)}

\* the writes <<address, value>> of each part
Writes(focus) ==
    CASE focus = "oam" -> {<<\hFF46, \h0A>>, <<\hFF46, \hC0>>, <<\hFE00, \h11>>}
      [] focus = "speed" -> {<<\hFF4D, \h01>>, <<\hFF4D, \h82>>}
      [] focus = "dma" -> {<<\hFF51, \h01>>, <<\hFF51, \h90>>, <<\hFF54, \h10>>,
                           <<\hFF55, \h01>>, <<\hFF55, \h82>>, <<\hFF55, \h80>>}
      [] focus = "dst" -> {<<\hFF53, \hFF>>, <<\hFF53, \h00>>, <<\hFF54, \hFF>>,
                           <<\hFF54, \hE0>>, <<\hFF55, \h00>>, <<\hFF55, \h01>>,
                           <<\hFF55, \h81>>}
      [] focus = "io" -> {<<\hFF02, \h81>>, <<\hFF0F, \h00>>, <<\hFF0F, \h1F>>,
                          <<\hFF00, \h20>>}
      [] focus = "serial" -> {<<\hFF01, \h5A>>, <<\hFF01, \h00>>, <<\hFF02, \h81>>,
                              <<\hFF02, \h80>>, <<\hFF02, \h01>>, <<\hFF02, \hFF>>}
      [] OTHER -> {<<\hFF00, \h00>>, <<\hFF00, \h10>>, <<\hFF00, \h20>>,
                   <<\hFF00, \h30>>, <<\hFF00, \hCF>>}

Reads(focus) ==
    CASE focus = "oam" -> {\hFE00, \hFE9F}
      [] focus = "speed" -> {\hFF4D}
      [] focus \in {"dma", "dst"} -> {\hFF55}
      [] focus = "io" -> {\hFF0F}
      [] focus = "serial" -> {\hFF01, \hFF02}
      [] OTHER -> {\hFF00}

\* tick counts of a CPU step, and the largest u32
Ticks(focus) ==
    CASE focus = "speed" -> {Wide(4), Wide(7), [hi |-> 65535, lo |-> 65535]}
      [] focus = "dma" -> {Wide(7), [hi |-> 65535, lo |-> 65535]}
      [] OTHER -> {Wide(4)}

\* the speed of a machine: Single after construction, either in one restored
\* from a saved state
Speeds(focus) ==
    IF focus \in {"speed", "dma"} THEN {"Single", "Double"} ELSE {"Single"}

\* whether the host installed a sound unit (mmu.sound = Some(..))
Sounds(focus) == IF focus = "speed" THEN BOOLEAN ELSE {FALSE}

\* what the GPU and the timer do during a do_cycle
Hosts(focus) ==
    CASE focus \in {"dma", "dst", "speed"} ->
            [may_hdma : BOOLEAN, tirq : {0}, girq : {0}]
      [] focus = "io" -> [may_hdma : {FALSE}, tirq : {0, 4}, girq : {0, 1}]
      [] focus = "keys" -> [may_hdma : {FALSE}, tirq : {0}, girq : {0}]
      [] OTHER -> {}

\* the keys the host works
Keys(focus) ==
    CASE focus = "io" -> {"Right"}
      [] focus = "keys" -> {"Right", "Down", "A", "Start"}
      [] OTHER -> {}

SysInit ==
    /\ \E k \in SysMachines :
          \E speed \in Speeds(k.focus), sound \in Sounds(k.focus) :
          /\ mmu = [MMU_new(get_mbc(k.data, FALSE).mbc, k.cgb, k.cb, k.checks)
                       EXCEPT !.gbspeed = speed, !.sound.some = sound]
          /\ obs = [Obs0 EXCEPT !.focus = k.focus]
    /\ cpu = CPU_new
    /\ last = Idle
    /\ cart = NoCart
    /\ dev = NoDev

\* a write of 0xFF55 that starts a transfer, or aborts one
Started(m, a, v) ==
    IF a # \hFF55 \/ m.gbmode # "Color" THEN obs.dma
    ELSE IF m.hdma_status = "HDMA"
    THEN (IF And(v, \h80) = 0 THEN NoDma ELSE obs.dma)
    ELSE [L |-> And(v, \h7F), rows |-> 0,
          src |-> Or(Shl(m.hdma[1], 8), m.hdma[2]),
          dst |-> Or(Or(Shl(m.hdma[3], 8), m.hdma[4]), \h8000)]

SysWb(a, v, env) ==
    /\ ~Crashed(mmu)
    /\ mmu' = MmuWb(Before(mmu), a, v, env)
    /\ last' = [Idle EXCEPT !.op = "wb", !.a = a, !.v = v, !.ret = env.reply]
    /\ obs' = [obs EXCEPT !.dma = Started(mmu, a, v),
                          !.sel = IF a = \hFF00 THEN v ELSE @,
                          !.scn = IF a = \hFF00 THEN Script(@, "wb", v) ELSE @]
    /\ UNCHANGED <<cpu, cart, dev>>

Cycled(r, ticks, host) ==
    /\ mmu' = r.mmu
    /\ last' = [Idle EXCEPT !.op = "do_cycle", !.a = ticks, !.v = r.vram,
                            !.ret = r.ticks, !.host = host]
    /\ obs' = [obs EXCEPT !.dma.rows = @ + (r.mmu.hdma_src - mmu.hdma_src) \div 16]

DoCycle(ticks, host) ==
    /\ ~Crashed(mmu)
    /\ Cycled(do_cycle(Before(mmu), ticks, host), ticks, host)
    /\ UNCHANGED <<cpu, cart, dev>>

SwitchSpeed ==
    /\ ~Crashed(mmu) /\ obs.focus = "speed"
    /\ mmu' = switch_speed(Before(mmu))
    /\ last' = [Idle EXCEPT !.op = "switch_speed"]
    /\ UNCHANGED <<cpu, obs, cart, dev>>

SysNext ==
    \/ \E w \in Writes(obs.focus), env \in Envs(mmu) : SysWb(w[1], w[2], env)
    \/ \E a \in Reads(obs.focus) : Rb(a)
    \/ \E ticks \in Ticks(obs.focus), host \in Hosts(obs.focus) : DoCycle(ticks, host)
    \/ SwitchSpeed
    \/ \E key \in Keys(obs.focus) : KeyDown(key)
    \/ \E key \in Keys(obs.focus) : KeyUp(key)

SpecSys == SysInit /\ [][SysNext]_vars

----------------------------------------------------------------------------
(* OAM DMA *)

\* C11: right after a write of v to 0xFF46 that returns, every OAM byte
\* 0xFE00 + i reads what rb((v << 8) + i) returned when the write was made
\* (checked at the first and the last byte of OAM)
C11_OamDma ==
    [][(last'.op = "wb" /\ last'.a = \hFF46 /\ ~Crashed(mmu'))
          => \A i \in OamOffs :
                MmuRb(mmu', \hFE00 + i) = MmuRb(mmu, Shl(last'.v, 8) + i)]_vars

----------------------------------------------------------------------------
(* CGB speed switch *)

Bit(x, n) == And(Shr(x, n), 1)

\* C12: in Color mode a write to 0xFF4D with bit 0 set arms the request and
\* rb(0xFF4D) then has bit 0 set; switch_speed with the request armed toggles
\* the speed (bit 7 of rb(0xFF4D) flips) and clears the request; with no
\* request it leaves the speed; a write with bit 0 clear leaves the request
C12_SpeedSwitch ==
    [][/\ (last'.op = "wb" /\ last'.a = \hFF4D /\ mmu.gbmode = "Color")
            => IF Bit(last'.v, 0) = 1
               THEN mmu'.speed_switch_req /\ Bit(MmuRb(mmu', \hFF4D), 0) = 1
               ELSE mmu'.speed_switch_req = mmu.speed_switch_req
       /\ last'.op = "switch_speed"
            => /\ ~mmu'.speed_switch_req
               /\ IF mmu.speed_switch_req
                  THEN /\ mmu'.gbspeed # mmu.gbspeed
                       /\ Bit(MmuRb(mmu', \hFF4D), 7) # Bit(MmuRb(mmu, \hFF4D), 7)
                  ELSE mmu'.gbspeed = mmu.gbspeed]_vars

----------------------------------------------------------------------------
(* CGB VRAM DMA *)

\* the source and the destination the registers 0xFF51..0xFF54 spell
RegSrc(m) == Or(Shl(m.hdma[1], 8), m.hdma[2])
RegDst(m) == Or(Or(Shl(m.hdma[3], 8), m.hdma[4]), \h8000)

\* C13: in Color mode a write of v to 0xFF55 that returns aborts an HDMA in
\* progress when bit 7 of v is 0, leaving source, destination and length; in
\* every other case it latches the source and the destination of the
\* registers and the length v & 0x7F, as an HDMA when bit 7 of v is set and a
\* GDMA otherwise
C13_StartOrAbort ==
    [][(last'.op = "wb" /\ last'.a = \hFF55 /\ mmu.gbmode = "Color"
          /\ ~Crashed(mmu'))
          => IF mmu.hdma_status = "HDMA" /\ Bit(last'.v, 7) = 0
             THEN /\ mmu'.hdma_status = "NoDMA"
                  /\ mmu'.hdma_src = mmu.hdma_src
                  /\ mmu'.hdma_dst = mmu.hdma_dst
                  /\ mmu'.hdma_len = mmu.hdma_len
             ELSE /\ mmu'.hdma_src = RegSrc(mmu)
                  /\ mmu'.hdma_dst = RegDst(mmu)
                  /\ mmu'.hdma_len = And(last'.v, \h7F)
                  /\ mmu'.hdma_status =
                        IF Bit(last'.v, 7) = 1 THEN "HDMA" ELSE "GDMA"]_vars


\* the modelled bytes of VRAM
VramCells == GpuRep \cap (\h8000 .. \h9FFF)

\* row r of the transfer obs.dma was copied by the step: its 16 destination
\* bytes hold what the 16 source bytes read
RowCopied(r) ==
    \A a \in VramCells :
        a - (obs.dma.dst + 16 * r) \in 0 .. 15
            => GPU_rb(mmu'.gpu, a) = MmuRb(mmu, obs.dma.src + (a - obs.dma.dst))

\* the step left every byte of VRAM outside the rows lo .. hi of obs.dma
RowsOnly(lo, hi) ==
    \A a \in VramCells :
        a - obs.dma.dst \notin (16 * lo) .. (16 * hi + 15)
            => GPU_rb(mmu'.gpu, a) = GPU_rb(mmu.gpu, a)

\* the transfer is over, or has left this many rows to do
Over(m) == m.hdma_status = "NoDMA" /\ MmuRb(m, \hFF55) = \hFF
Left(m, n) == m.hdma_status = "HDMA" /\ MmuRb(m, \hFF55) = n - 1

C14_Gdma ==
    mmu.hdma_status = "GDMA"
        => /\ \A r \in 0 .. obs.dma.L : RowCopied(r)
           /\ RowsOnly(0, obs.dma.L)
           /\ obs'.dma.rows = obs.dma.L + 1
           /\ last'.v = 8 * (obs.dma.L + 1)
           /\ Over(mmu')

C14_Hdma ==
    mmu.hdma_status = "HDMA"
        => IF last'.host.may_hdma
           THEN /\ RowCopied(obs.dma.rows)
                /\ RowsOnly(obs.dma.rows, obs.dma.rows)
                /\ obs'.dma.rows = obs.dma.rows + 1
                /\ last'.v = 8
                /\ IF obs'.dma.rows = obs.dma.L + 1 THEN Over(mmu')
                   ELSE Left(mmu', obs.dma.L + 1 - obs'.dma.rows)
           ELSE /\ mmu'.gpu.mem = mmu.gpu.mem
                /\ obs'.dma.rows = obs.dma.rows
                /\ last'.v = 0
                /\ Left(mmu', obs.dma.L + 1 - obs.dma.rows)

\* C14: a do_cycle that returns does every row of a GDMA of length field L,
\* row r from src + 16r to dst + 16r, for 8 * (L + 1) ticks, and the transfer
\* is over (rb(0xFF55) = 0xFF); it does the next row of an HDMA when
\* gpu.may_hdma() holds, for 8 ticks, and none, for 0 ticks, when it does not;
\* the HDMA is over after row L and until then rb(0xFF55) is the number of
\* rows left minus one, bit 7 clear; no other byte of VRAM changes
C14_VramDma ==
    /\ [](mmu.hdma_status = "HDMA" /\ ~Crashed(mmu)
            => /\ obs.dma.rows <= obs.dma.L
               /\ Left(mmu, obs.dma.L + 1 - obs.dma.rows))
    /\ [][(last'.op = "do_cycle" /\ obs.focus = "dma" /\ ~Crashed(mmu'))
            => /\ C14_Gdma
               /\ C14_Hdma
               /\ mmu.hdma_status = "NoDMA"
                    => last'.v = 0 /\ mmu'.gpu.mem = mmu.gpu.mem]_vars

\* the last row of an HDMA of three rows has just been copied
C14_Witness ==
    /\ last.op = "do_cycle" /\ last.host.may_hdma /\ last.v = 8
    /\ obs.dma.L = 2 /\ obs.dma.rows = 3 /\ obs.dma.src = \h0100
    /\ Over(mmu)
    /\ GPU_rb(mmu.gpu, \h802F) = MmuRb(mmu, \h012F)

\* VRAM, where a VRAM DMA may write
Vram == \h8000 .. \h9FFF

\* the destination bytes of the rows a do_cycle copied: the 16 bytes from
\* hdma_dst of each row, hdma_dst advancing by 16 from row to row
Written(m, after) == m.hdma_dst .. after.hdma_dst - 1

\* the transfer obs.dma ends within VRAM
Fits(dma) == dma.dst + 16 * (dma.L + 1) <= \hA000

\* C34: whatever was written to 0xFF53, 0xFF54 and 0xFF55, every byte a GDMA
\* or an HDMA writes goes to an address of VRAM, 0x8000 to 0x9FFF, and while a
\* transfer is in progress its destination is not past 0x9FFF
C34_DestinationInVram ==
    /\ [](mmu.hdma_status # "NoDMA" /\ ~Crashed(mmu) => mmu.hdma_dst \in Vram)
    /\ [][(last'.op = "do_cycle" /\ ~Crashed(mmu'))
            => Written(mmu, mmu') \subseteq Vram]_vars

\* the same of the transfers that end within VRAM, and the destination
\* latched by a write of 0xFF55 is a multiple of 16 in 0x8000 to 0x9FF0
C34_WhileFits ==
    /\ [](obs.dma.L # Unset => obs.dma.dst \in Vram /\ obs.dma.dst % 16 = 0)
    /\ [](mmu.hdma_status # "NoDMA" /\ ~Crashed(mmu) /\ Fits(obs.dma)
            => mmu.hdma_dst \in Vram)
    /\ [][(last'.op = "do_cycle" /\ ~Crashed(mmu') /\ Fits(obs.dma))
            => Written(mmu, mmu') \subseteq Vram]_vars

\* an HDMA of two rows to 0x9FF0 copied its first row: the second row goes to
\* 0xA000
C34_PastVram ==
    /\ last.op = "do_cycle" /\ ~Crashed(mmu)
    /\ mmu.hdma_status = "HDMA" /\ obs.dma.dst = \h9FF0 /\ obs.dma.rows = 1
    /\ mmu.hdma_dst = \hA000

----------------------------------------------------------------------------
(* HDMA under an emulator loop that keeps calling do_cycle while the GPU   *)
(* keeps reaching HBlank                                                   *)

\* the writes of the DMA registers: sources 0x0000 and 0x0100, GDMA of 1 and
\* 3 rows (the latter aborts an HDMA), HDMA of 2 and 128 rows
HdmaWrites ==
    {<<\hFF51, \h01>>, <<\hFF55, \h00>>, <<\hFF55, \h02>>, <<\hFF55, \h81>>,
     <<\hFF55, \hFF>>}

HdmaHosts == [may_hdma : BOOLEAN, tirq : {0}, girq : {0}]

HdmaInit ==
    /\ mmu = MMU_new(get_mbc(Plain(\h80), FALSE).mbc, TRUE, FALSE, TRUE)
    /\ obs = [Obs0 EXCEPT !.focus = "hdma"]
    /\ cpu = CPU_new
    /\ last = Idle
    /\ cart = NoCart
    /\ dev = NoDev

\* wb(a, v) on the bus
HdmaWb ==
    \E w \in HdmaWrites, env \in Envs(mmu) :
        /\ ~Crashed(mmu)
        /\ mmu' = MmuWb(Before(mmu), w[1], w[2], env)
        /\ last' = [Idle EXCEPT !.op = "wb", !.v = w[2]]
        /\ obs' = [obs EXCEPT !.dma = Started(mmu, w[1], w[2])]
        /\ UNCHANGED <<cpu, cart, dev>>

\* do_cycle(7) while the GPU answers may_hdma() as the host says; last.v is
\* the ticks of the DMA
HdmaDoCycle(r, host) ==
    /\ ~Crashed(mmu)
    /\ mmu' = r.mmu
    /\ last' = [Idle EXCEPT !.op = "do_cycle", !.v = r.vram, !.host = host]
    /\ obs' = [obs EXCEPT !.dma.rows = @ + (r.mmu.hdma_src - mmu.hdma_src) \div 16]
    /\ UNCHANGED <<cpu, cart, dev>>

HdmaCycle ==
    \E host \in HdmaHosts : HdmaDoCycle(do_cycle(Before(mmu), Wide(7), host), host)

HdmaNext == HdmaWb \/ HdmaCycle

\* an HDMA is in progress and the program runs: a do_cycle during which
\* gpu.may_hdma() holds can be made, and it copies a row
HdmaMayRow == mmu.hdma_status = "HDMA" /\ ~Crashed(mmu)

\* that do_cycle
HdmaRow == HdmaMayRow /\ last'.op = "do_cycle" /\ last'.host.may_hdma

\* the loop calls do_cycle after every CPU step, and every scanline of the
\* GPU has an HBlank: a do_cycle with may_hdma() true is never put off for
\* ever.  This is weak fairness of HdmaRow, written out with HdmaMayRow for
\* ENABLED <<HdmaRow>>_vars
HdmaFair == []<>(~HdmaMayRow) \/ []<><<HdmaRow>>_vars

SpecHdma == HdmaInit /\ [][HdmaNext]_vars /\ HdmaFair

\* C35: an HDMA in progress is eventually over (status NoDMA) when do_cycle
\* keeps being called with gpu.may_hdma() true again and again; a GDMA is over
\* after the first do_cycle that follows its start
C35_HdmaCompletes ==
    /\ (mmu.hdma_status = "HDMA") ~> (mmu.hdma_status = "NoDMA" \/ Crashed(mmu))
    /\ [][(last'.op = "do_cycle" /\ mmu.hdma_status = "GDMA" /\ ~Crashed(mmu'))
            => mmu'.hdma_status = "NoDMA"]_vars

\* an HDMA of 128 rows was ended by its last row
C35_Witness ==
    /\ last.op = "do_cycle" /\ last.host.may_hdma /\ ~Crashed(mmu)
    /\ obs.dma.L = \h7F /\ obs.dma.rows = 128
    /\ mmu.hdma_status = "NoDMA" /\ mmu.hdma_len = \h7F

----------------------------------------------------------------------------
(* Cycle accounting *)

\* the divider of a speed
Divider(m) == IF m.gbspeed = "Double" THEN 2 ELSE 1

\* floor(ticks / d) + vram and ticks + vram * d as numbers, in 16-bit halves
\* (hi is 65536 or more when the number is 2^32 or more)
IdealGpu(m, ticks, vram) == Sum32(Div32(ticks, Divider(m)), Wide(vram))
IdealCpu(m, ticks, vram) == Sum32(ticks, Wide(vram * Divider(m)))

\* the do_cycle just made returned gputicks, advanced the timer by cputicks
\* and the GPU and the sound unit by gputicks
Accounted ==
    /\ last'.ret = IdealGpu(mmu, last'.a, last'.v)
    /\ mmu'.timer.ticks = IdealCpu(mmu, last'.a, last'.v)
    /\ mmu'.gpu.ticks = last'.ret
    /\ mmu.sound.some => mmu'.sound.ticks = last'.ret
    /\ (mmu.gbspeed = "Single" /\ mmu.hdma_status = "NoDMA") => last'.ret = last'.a

----------------------------------------------------------------------------
(* Interrupt aggregation *)

\* the interrupt latches of the devices
Latches(m) ==
    <<m.timer.interrupt, m.keypad.interrupt, m.gpu.interrupt, m.serial.interrupt>>

Or4(q) == Or(Or(q[1], q[2]), Or(q[3], q[4]))

\* C16: a do_cycle that returns leaves in IF the old IF ORed with the latches
\* of timer, keypad, GPU and serial (what they held and what timer and GPU
\* raised during the call), clears no bit of IF and leaves the four latches
\* at 0; a write of IF leaves the four latches alone, so what keydown or a
\* serial transfer latched before it still reaches IF at the next do_cycle,
\* and only at that one
C16_Aggregation ==
    [][/\ (last'.op = "do_cycle" /\ ~Crashed(mmu'))
            => /\ mmu'.intf =
                    Or(Or(mmu.intf, Or4(Latches(mmu))),
                       Or(last'.host.tirq, last'.host.girq))
               /\ And(mmu'.intf, mmu.intf) = mmu.intf
               /\ Latches(mmu') = <<0, 0, 0, 0>>
       /\ (last'.op = "wb" /\ last'.a = \hFF0F)
            => /\ Latches(mmu') = Latches(mmu)
               /\ mmu'.intf = last'.v]_vars

\* a do_cycle has just delivered the interrupts of the keypad and of the
\* serial port to an IF that the CPU had cleared
C16_Witness ==
    /\ last.op = "do_cycle" /\ ~Crashed(mmu)
    /\ mmu.intf = \h18
    /\ Latches(mmu) = <<0, 0, 0, 0>>
    /\ mmu.keypad.row0 # \h0F /\ mmu.serial.data = \h42

----------------------------------------------------------------------------
(* IME delay and HALT: the CPU step with the instructions that touch the   *)
(* interrupt state, the stack at its power-on place                        *)

StepInstructions == {ins \in Instructions : ins.i \in {"NOP", "EI", "DI", "HALT"}}

StepNext ==
    \/ \E a \in {\hFF0F, \hFFFF}, v \in IrqVals : WriteIrq(a, v)
    \/ UpdateIme
    \/ HandleInterrupt
    \/ \E ins \in StepInstructions : Execute(ins)

SpecStep == CpuInit /\ [][StepNext]_vars

\* C17: within a step update_ime runs before the interrupt check.  An armer
\* that is 2 at the start of a step (armed during the step before) becomes 1
\* and does not act on IME, so the interrupt check of that step sees IME as
\* it was; an armer that is 1 at the start of a step (armed two steps
\* before) sets IME before the interrupt check of that step and becomes 0;
\* an armer that is 0 never changes IME; the interrupt check and the
\* instruction change an armer only by arming it with 2
C17_ImeDelay ==
    [][/\ obs'.phase = "int" => obs.phase = "ime" /\ last'.op = "update_ime"
       /\ last'.op = "handle_interrupt" => obs.phase = "int"
       /\ last'.op = "update_ime"
            => /\ cpu.setei = 2 => cpu'.setei = 1
               /\ cpu.setdi = 2 => cpu'.setdi = 1
               /\ cpu.setei = 1 => cpu'.ime /\ cpu'.setei = 0
               /\ (cpu.setdi = 1 /\ cpu.setei # 1) => ~cpu'.ime /\ cpu'.setdi = 0
               /\ (cpu.setei # 1 /\ cpu.setdi # 1) => cpu'.ime = cpu.ime
               /\ cpu.setei = 0 => cpu'.setei = 0
               /\ cpu.setdi = 0 => cpu'.setdi = 0
       /\ last'.op # "update_ime"
            => /\ cpu'.setei \in {cpu.setei, 2}
               /\ cpu'.setdi \in {cpu.setdi, 2}]_vars

\* EI was executed two steps ago with IME off: IME has just been turned on,
\* before the interrupt check of this step
C17_Witness ==
    /\ last.op = "update_ime" /\ last.ret = 1 /\ obs.phase = "int"
    /\ cpu.ime /\ cpu.setei = 0

\* C18: a step of a halted CPU with IE & IF & 0x1F = 0 services nothing,
\* executes no instruction, returns 1 tick, leaves PC, SP, IF and IE and
\* stays halted; the interrupt check of a halted CPU with IE & IF & 0x1F # 0
\* that returns leaves the halted state, with IME on or off
C18_Halt ==
    [][/\ (cpu.halted /\ Triggered = 0 /\ obs.phase \in {"int", "exec"})
            => /\ cpu'.halted
               /\ cpu'.pc = cpu.pc /\ cpu'.sp = cpu.sp
               /\ mmu'.intf = mmu.intf /\ mmu'.inte = mmu.inte
               /\ obs.phase = "int" => last'.ret = 0 /\ obs'.phase = "exec"
               /\ obs.phase = "exec" => last'.op = "halted" /\ last'.ret = 1
       /\ last'.op = "update_ime"
            => /\ cpu'.halted = cpu.halted
               /\ cpu'.pc = cpu.pc /\ cpu'.sp = cpu.sp /\ mmu' = mmu
       /\ (cpu.halted /\ Triggered # 0 /\ obs.phase = "int" /\ ~Crashed(mmu'))
            => ~cpu'.halted]_vars

\* a halted CPU with IME off has just left the halted state without
\* servicing the pending interrupt
C18_Witness ==
    /\ last.op = "handle_interrupt" /\ last.v = 1 /\ last.ret = 0
    /\ ~cpu.halted /\ ~cpu.ime /\ Triggered # 0

----------------------------------------------------------------------------
(* Serial port *)

\* C19: a write of v to 0xFF02 calls the callback, with the byte of 0xFF01,
\* iff (v & 0x81) = 0x81 and a callback is registered; when it answers
\* Some(b), 0xFF01 reads b and the serial interrupt latch is 0x08; in every
\* other case 0xFF01 and the latch are as before; 0xFF02 then reads v | 0x7E
C19_SerialTransfer ==
    [][(last'.op = "wb" /\ last'.a = \hFF02)
          => /\ ~Crashed(mmu')
             /\ mmu'.serial.cb_called
                    <=> (And(last'.v, \h81) = \h81 /\ mmu.serial.callback)
             /\ mmu'.serial.cb_called => mmu'.serial.cb_arg = MmuRb(mmu, \hFF01)
             /\ IF mmu'.serial.cb_called /\ last'.ret # NoReply
                THEN /\ MmuRb(mmu', \hFF01) = last'.ret
                     /\ mmu'.serial.interrupt = \h08
                ELSE /\ MmuRb(mmu', \hFF01) = MmuRb(mmu, \hFF01)
                     /\ mmu'.serial.interrupt = mmu.serial.interrupt
             /\ MmuRb(mmu', \hFF02) = Or(last'.v, \h7E)]_vars

\* the callback was handed 0x5A and answered Some(0x42)
C19_Witness ==
    /\ last.op = "wb" /\ last.a = \hFF02 /\ last.v = \h81 /\ last.ret = \h42
    /\ mmu.serial.cb_called /\ mmu.serial.cb_arg = \h5A
    /\ MmuRb(mmu, \hFF01) = \h42 /\ mmu.serial.interrupt = \h08

----------------------------------------------------------------------------
(* Keypad *)

Held(key, bit) == IF key \in obs.held THEN bit ELSE 0

\* the rows as the keys held make them: a bit is 0 iff its key is held
Directions ==
    15 - Held("Right", 1) - Held("Left", 2) - Held("Up", 4) - Held("Down", 8)
Actions ==
    15 - Held("A", 1) - Held("B", 2) - Held("Select", 4) - Held("Start", 8)

Nibble ==
    And(IF Bit(obs.sel, 4) = 0 THEN Directions ELSE 15,
        IF Bit(obs.sel, 5) = 0 THEN Actions ELSE 15)

\* what the claim lists for one held key with bit b, for the written values
\* 0x00, 0x10, 0x20 and 0x30
Listed(action, b) ==
    CASE And(obs.sel, \h30) = \h00 -> \hCF - b
      [] And(obs.sel, \h30) = \h10 -> IF action THEN \hDF - b ELSE \hDF
      [] And(obs.sel, \h30) = \h20 -> IF action THEN \hEF ELSE \hEF - b
      [] OTHER -> \hFF

\* C20: rb(0xFF00) is 0xC0 | (s & 0x30) | n for the value s last written and
\* the nibble n of the selected rows; with a single key held it is the value
\* listed for that key and s
C20_KeypadMatrix ==
    ~Crashed(mmu)
        => /\ MmuRb(mmu, \hFF00) = \hC0 + And(obs.sel, \h30) + Nibble
           /\ \A key \in {"A", "Start"} :
                 obs.held = {key} => MmuRb(mmu, \hFF00) = Listed(TRUE, KeyBit(key))
           /\ \A key \in {"Right", "Down"} :
                 obs.held = {key} => MmuRb(mmu, \hFF00) = Listed(FALSE, KeyBit(key))

\* Start alone is held and 0x10 was written: the port reads 0xD7
C20_Witness ==
    /\ obs.held = {"Start"} /\ obs.sel = \h10 /\ last.op = "wb"
    /\ MmuRb(mmu, \hFF00) = \hD7


\* C21 as stated: on a fresh keypad, after keydown(Right) and a write of 0x10
\* to 0xFF00 the port reads 0xCE, and after a following write of 0x20 it
\* reads 0xEF
C21_DirectionRow ==
    /\ obs.scn = 2 => MmuRb(mmu, \hFF00) = \hCE
    /\ obs.scn = 3 => MmuRb(mmu, \hFF00) = \hEF

\* C21: on a fresh keypad, after keydown(Right) and a write of 0x10 to
\* 0xFF00 the port reads 0xDF (the action row is selected and shows no key),
\* and after a following write of 0x20 it reads 0xEE (the direction row is
\* selected and shows Right)
C21_DirectionRowAsBuilt ==
    /\ obs.scn = 2 => MmuRb(mmu, \hFF00) = \hDF
    /\ obs.scn = 3 => MmuRb(mmu, \hFF00) = \hEE

\* keydown(Right), wb(0xFF00, 0x10), wb(0xFF00, 0x20) have just been made on
\* the fresh keypad
C21_Witness ==
    /\ obs.scn = 3 /\ obs.held = {"Right"} /\ obs.sel = \h20
    /\ last.op = "wb" /\ last.a = \hFF00 /\ last.v = \h20

\* the bits 0-3 of the port that the step took from 1 to 0
Fell == {b \in 0 .. 3 : Bit(MmuRb(mmu, \hFF00), b) = 1
                        /\ Bit(MmuRb(mmu', \hFF00), b) = 0}

\* C22: a keydown, a keyup or a write of 0xFF00 made with the joypad latch
\* clear sets the latch (to 0x10) iff it takes at least one of the bits 0-3
\* of the port from 1 to 0
C22_JoypadLatch ==
    [][((last'.op \in {"keydown", "keyup"} \/ (last'.op = "wb" /\ last'.a = \hFF00))
          /\ mmu.keypad.interrupt = 0)
          => /\ mmu'.keypad.interrupt \in {0, \h10}
             /\ mmu'.keypad.interrupt = \h10 <=> Fell # {}]_vars


----------------------------------------------------------------------------
(* The link-cable printer (printer.rs) *)

PacketLen == \h400
DataLen == \h280 * 9

\* the cells of the tile buffer that the model keeps
DataCells == {0, 1, 2, 3, \h27F, \h280, DataLen - 1}

GbPrinter_new ==
    [status |-> 0, state |-> 0,
     data |-> [c \in DataCells |-> 0],
     packet |-> [i \in 0 .. PacketLen - 1 |-> 0],
     count |-> 0, datacount |-> 0, datasize |-> 0, result |-> 0,
     printcount |-> 0, panic |-> FALSE]

\* the wrapping sum of packet[lo .. hi - 1]; the code adds in index order,
\* and as wrapping addition is associative the halves are added separately
RECURSIVE PacketSum(_, _, _)
PacketSum(p, lo, hi) ==
    IF hi <= lo THEN 0
    ELSE IF hi = lo + 1 THEN p.packet[lo]
    ELSE LET mid == (lo + hi) \div 2
         IN (PacketSum(p, lo, mid) + PacketSum(p, mid, hi)) % 65536

\* check_crc indexes the packet up to 7 + datasize
check_crc_in_bounds(p) == 7 + p.datasize < PacketLen

check_crc(p) ==
    LET crc == PacketSum(p, 2, 6 + p.datasize)
        msgcrc == (p.packet[6 + p.datasize]
                     + ((p.packet[7 + p.datasize] * 256) % 65536)) % 65536
    IN crc = msgcrc

reset(p) ==
    [p EXCEPT !.state = 0, !.datasize = 0, !.datacount = 0, !.count = 0,
              !.status = 0, !.result = 0]

\* show: the file name takes printcount, which is then incremented (u8);
\* the picture itself goes to the file system and every index show_inner
\* uses lies below 16 * 360 = DataLen
show(p, checks) ==
    IF p.printcount = 255
    THEN IF checks THEN [p EXCEPT !.panic = TRUE] ELSE [p EXCEPT !.printcount = 0]
    ELSE [p EXCEPT !.printcount = @ + 1]

\* the uncompressed branch of receive
receive_raw(p) ==
    IF p.datacount + p.datasize > DataLen \/ 6 + p.datasize > PacketLen
    THEN [p EXCEPT !.panic = TRUE]
    ELSE [p EXCEPT !.data = [c \in DataCells |->
                                IF c >= p.datacount /\ c < p.datacount + p.datasize
                                THEN p.packet[6 + (c - p.datacount)] ELSE @[c]],
                   !.datacount = @ + p.datasize]

\* the loop of the compressed branch of receive, from dataidx and destidx
RECURSIVE receive_rle(_, _, _)
receive_rle(p, dataidx, destidx) ==
    IF p.panic THEN p
    ELSE IF ~(dataidx - 6 < p.datasize) THEN [p EXCEPT !.datacount = destidx]
    ELSE IF dataidx >= PacketLen THEN [p EXCEPT !.panic = TRUE]
    ELSE LET control == p.packet[dataidx]
             from == dataidx + 1
         IN IF And(control, \h80) = 0
            THEN LET curlen == control + 1
                 IN IF destidx + curlen > DataLen \/ from + curlen > PacketLen
                    THEN [p EXCEPT !.panic = TRUE]
                    ELSE receive_rle(
                           [p EXCEPT !.data = [c \in DataCells |->
                                        IF c >= destidx /\ c < destidx + curlen
                                        THEN p.packet[from + (c - destidx)] ELSE @[c]]],
                           from + curlen, destidx + curlen)
            ELSE LET curlen == And(control, \h7F) + 2
                 IN IF destidx + curlen > DataLen \/ from >= PacketLen
                    THEN [p EXCEPT !.panic = TRUE]
                    ELSE receive_rle(
                           [p EXCEPT !.data = [c \in DataCells |->
                                        IF c >= destidx /\ c < destidx + curlen
                                        THEN p.packet[from] ELSE @[c]]],
                           from + 1, destidx + curlen)

receive(p) ==
    IF p.packet[3] = 0 THEN receive_raw(p) ELSE receive_rle(p, 6, p.datacount)

command(p, checks) ==
    CASE p.packet[2] = \h01 -> [p EXCEPT !.datacount = 0, !.status = 0]
      [] p.packet[2] = \h02 -> show(p, checks)
      [] p.packet[2] = \h04 -> receive(p)
      [] OTHER -> p

\* the match on self.state, for the printer q that has stored the byte
send_state(q, v, checks) ==
    CASE q.state = 0 -> IF v = \h88 THEN [q EXCEPT !.state = 1] ELSE reset(q)
      [] q.state = 1 -> IF v = \h33 THEN [q EXCEPT !.state = 2] ELSE reset(q)
      [] q.state = 2 ->
            IF q.count = 6
            THEN LET size == q.packet[4] + q.packet[5] * 256
                 IN [q EXCEPT !.datasize = size,
                              !.state = IF size > 0 THEN 3 ELSE 4]
            ELSE q
      [] q.state = 3 -> IF q.count = q.datasize + 6 THEN [q EXCEPT !.state = 4] ELSE q
      [] q.state = 4 -> [q EXCEPT !.state = 5]
      [] q.state = 5 ->
            IF ~check_crc_in_bounds(q) THEN [q EXCEPT !.panic = TRUE]
            ELSE LET r == IF check_crc(q) THEN command(q, checks) ELSE q
                 IN IF r.panic THEN r ELSE [r EXCEPT !.state = 6]
      [] q.state = 6 -> [q EXCEPT !.result = \h81, !.state = 7]
      [] q.state = 7 -> [q EXCEPT !.result = q.status, !.state = 0, !.count = 0]
      [] OTHER -> reset(q)

\* send(v): the printer afterwards; the byte returned is its result
send(p, v, checks) ==
    IF p.panic THEN p
    ELSE IF p.count >= PacketLen THEN [p EXCEPT !.panic = TRUE]
    ELSE send_state([p EXCEPT !.packet[p.count] = v, !.count = @ + 1], v, checks)

\* A transmission of the Game Boy: the six header bytes (or fewer bytes that
\* are no header), n data bytes (those of body, then fill), the checksum
\* (right, or off by one) and the two trailing bytes
Packet(cmd, comp, n, body, fill, good, tail) ==
    [head |-> <<\h88, \h33, cmd, comp, n % 256, n \div 256>>, n |-> n,
     body |-> body, fill |-> fill, good |-> good, tail |-> tail, whole |-> TRUE]

Noise(bytes) ==
    [head |-> bytes, n |-> 0, body |-> <<>>, fill |-> 0, good |-> FALSE,
     tail |-> <<>>, whole |-> FALSE]

NoPlan == Noise(<<>>)

RECURSIVE SeqSum(_, _)
SeqSum(sq, k) == IF k = 0 THEN 0 ELSE sq[k] + SeqSum(sq, k - 1)

PlanLen(plan) == IF plan.whole THEN plan.n + 10 ELSE Len(plan.head)

PlanSum(plan) ==
    LET inbody == IF Len(plan.body) < plan.n THEN Len(plan.body) ELSE plan.n
        sum == plan.head[3] + plan.head[4] + plan.head[5] + plan.head[6]
                 + SeqSum(plan.body, inbody) + plan.fill * (plan.n - inbody)
    IN (sum + (IF plan.good THEN 0 ELSE 1)) % 65536

\* the byte at position i of the transmission
ByteOf(plan, i) ==
    IF i < Len(plan.head) THEN plan.head[i + 1]
    ELSE IF i < 6 + plan.n
         THEN IF i - 6 < Len(plan.body) THEN plan.body[i - 5] ELSE plan.fill
    ELSE IF i = 6 + plan.n THEN PlanSum(plan) % 256
    ELSE IF i = 7 + plan.n THEN PlanSum(plan) \div 256
    ELSE plan.tail[i - 7 - plan.n]

InitPacket == Packet(\h01, 0, 0, <<>>, 0, TRUE, <<\h02, \h00>>)

\* the number of transmissions in a run of the protocol part
MaxPackets == 2

Sheet == \h280

\* the runs of 129 bytes in a run-length encoded packet: one more than the
\* tile buffer holds
Runs == DataLen \div 129 + 1

Plans(focus) ==
    CASE focus = "proto" ->
            {InitPacket,
             Packet(\h01, 0, 0, <<>>, 0, FALSE, <<0, 0>>),
             Packet(\h04, 0, 2, <<\hAA, \h55>>, 0, TRUE, <<0, 0>>),
             Packet(\h04, 0, 2, <<\hAA, \h55>>, 0, FALSE, <<0, 0>>),
             Packet(\h04, 1, 3, <<\h01, \h12, \h34>>, 0, TRUE, <<0, 0>>),
             Packet(\h04, 1, 2, <<\h81, \h77>>, 0, TRUE, <<0, 0>>),
             Packet(\h04, 1, 1, <<\h03>>, 0, TRUE, <<0, 0>>),
             Packet(\h02, 0, 4, <<\h01, \h13, \hE4, \h40>>, 0, TRUE, <<0, 0>>),
             Packet(\h0F, 0, 1, <<\h00>>, 0, TRUE, <<\hFF, \hFF>>),
             Noise(<<\h00>>), Noise(<<\h88, \h00>>)}
      [] focus = "big" ->
            {Packet(\h04, 0, PacketLen - 10, <<>>, \h5A, TRUE, <<0, 0>>),
             Packet(\h04, 0, PacketLen - 9, <<>>, \h5A, TRUE, <<0, 0>>),
             Packet(\h04, 0, PacketLen - 9, <<>>, \h5A, FALSE, <<0, 0>>)}
      [] focus = "fill" ->
            {InitPacket, Packet(\h04, 0, Sheet, <<\h11, \h22>>, \hFF, TRUE, <<0, 0>>)}
      [] focus = "prints" ->
            {Packet(\h02, 0, 4, <<\h01, \h13, \hE4, \h40>>, 0, TRUE, <<0, 0>>)}
      [] focus = "runs" ->
            {InitPacket, Packet(\h04, 1, Runs * 2, <<>>, \hFF, TRUE, <<0, 0>>)}
      [] OTHER -> {}

\* the transmissions of a run
Limit(focus) ==
    CASE focus = "proto" -> MaxPackets
      [] focus = "big" -> 2
      [] focus = "fill" -> DataLen \div Sheet + 1
      [] focus = "prints" -> 257
      [] focus = "runs" -> 2
      [] OTHER -> 0

PrinterFoci == {"proto", "big", "fill", "prints", "runs"}

PrinterInit ==
    /\ \E focus \in PrinterFoci, checks \in BOOLEAN :
          dev = [kind |-> "printer", focus |-> focus, checks |-> checks,
                 p |-> GbPrinter_new, plan |-> NoPlan, pos |-> 0, sent |-> 0,
                 path |-> <<>>, before |-> GbPrinter_new]
    /\ mmu = MMU_new(get_mbc(Plain(0), FALSE).mbc, FALSE, TRUE, TRUE)
    /\ cpu = CPU_new
    /\ last = Idle
    /\ obs = Obs0
    /\ cart = NoCart

\* the Game Boy sends the next byte of a transmission: the first byte of a
\* new one when none is under way, else the next of the one under way
Send(plan) ==
    LET fresh == dev.pos = PlanLen(dev.plan)
        pos == IF fresh THEN 0 ELSE dev.pos
        v == ByteOf(plan, pos)
        q == send(dev.p, v, dev.checks)
    IN /\ dev.kind = "printer" /\ ~dev.p.panic
       /\ IF fresh THEN dev.sent < Limit(dev.focus) ELSE plan = dev.plan
       /\ dev' = [dev EXCEPT !.p = q, !.plan = plan, !.pos = pos + 1,
                             !.sent = IF fresh THEN @ + 1 ELSE @,
                             !.before = IF fresh THEN dev.p ELSE @,
                             !.path = IF fresh THEN <<q.state>>
                                      ELSE IF q.state = dev.p.state THEN @
                                      ELSE Append(@, q.state)]
       /\ last' = [Idle EXCEPT !.op = "send", !.v = v,
                               !.ret = IF q.panic THEN PANIC ELSE q.result]
       /\ UNCHANGED <<mmu, cpu, obs, cart>>

PrinterNext == \E plan \in Plans(dev.focus) : Send(plan)

SpecPrinter == PrinterInit /\ [][PrinterNext]_vars

\* the states a whole transmission with n data bytes passes through
Passage(n) == IF n > 0 THEN <<1, 2, 3, 4, 5, 6, 7, 0>> ELSE <<1, 2, 4, 5, 6, 7, 0>>

\* a whole transmission (right checksum or not) is under way and k of its
\* bytes have been sent
Sent(k) == dev.plan.whole /\ dev.pos = k

\* C23: a well-formed packet sent to the idle printer (state 0, count 0) is
\* answered 0x81 at its first trailing byte and the status at its second,
\* after which the printer is idle again with count 0, having passed
\* through the states 1, 2, (3 iff n > 0), 4, 5, 6, 7 in that order, and no
\* byte of it makes send fail; after the init packet the byte returned
\* last is 0x00 and status and data count are 0
C23_PacketProtocol ==
    /\ dev.plan.whole => ~dev.p.panic
    /\ Sent(dev.plan.n + 9) => last.ret = \h81
    /\ Sent(dev.plan.n + 10) =>
          /\ last.ret = dev.p.status
          /\ dev.p.state = 0 /\ dev.p.count = 0
          /\ dev.path = Passage(dev.plan.n)
    /\ (Sent(10) /\ dev.plan = InitPacket) =>
          last.ret = 0 /\ dev.p.status = 0 /\ dev.p.datacount = 0

\* the same of the transmissions that send survives
C23_WhileSendSurvives ==
    ~dev.p.panic =>
       /\ Sent(dev.plan.n + 9) => last.ret = \h81
       /\ Sent(dev.plan.n + 10) =>
             /\ last.ret = dev.p.status
             /\ dev.p.state = 0 /\ dev.p.count = 0
             /\ dev.path = Passage(dev.plan.n)
       /\ (Sent(10) /\ dev.plan = InitPacket) =>
             last.ret = 0 /\ dev.p.status = 0 /\ dev.p.datacount = 0

C23_Reached ==
    /\ Sent(10) /\ dev.plan = InitPacket /\ dev.sent = 2
    /\ dev.before.datacount = 2 /\ dev.p.datacount = 0 /\ last.ret = 0

\* what the commands keep: the tile buffer, the data count, the status and
\* the number of prints are those the printer had when the transmission began
Untouched ==
    /\ dev.p.data = dev.before.data
    /\ dev.p.datacount = dev.before.datacount
    /\ dev.p.status = dev.before.status
    /\ dev.p.printcount = dev.before.printcount

\* what the command of the transmission under way leaves when it is run
Dispatched ==
    LET cmd == dev.plan.head[3]
        comp == dev.plan.head[4]
        at == dev.before.datacount
    IN CASE cmd = \h01 -> dev.p.datacount = 0 /\ dev.p.status = 0
         [] cmd = \h02 -> dev.p.printcount = (dev.before.printcount + 1) % 256
         [] cmd = \h04 /\ comp = 0 ->
               /\ dev.p.datacount = at + dev.plan.n
               /\ (dev.plan.n > 0 /\ at \in DataCells) => dev.p.data[at] = ByteOf(dev.plan, 6)
         [] cmd = \h04 /\ comp # 0 -> dev.p.datacount > at
         [] OTHER -> Untouched

\* C31: the second checksum byte of a packet runs the command iff the two
\* checksum bytes are the sum modulo 2^16 of the bytes 2 .. 5 + datasize; with
\* a wrong checksum the tile buffer, the data count and the status stay as
\* they were, and the printer still goes on to the acknowledge states,
\* answering 0x81 and then the status
C31_ChecksumGating ==
    dev.plan.whole =>
       /\ (dev.plan.good /\ Sent(dev.plan.n + 8)) =>
             dev.p.panic \/ (dev.p.state = 6 /\ Dispatched)
       /\ (~dev.plan.good /\ dev.pos >= dev.plan.n + 8) => ~dev.p.panic /\ Untouched
       /\ (~dev.plan.good /\ Sent(dev.plan.n + 8)) => dev.p.state = 6
       /\ (~dev.plan.good /\ Sent(dev.plan.n + 9)) => dev.p.state = 7 /\ last.ret = \h81
       /\ (~dev.plan.good /\ Sent(dev.plan.n + 10)) =>
             dev.p.state = 0 /\ last.ret = dev.p.status

\* the same of the packets whose bytes the packet buffer holds
C31_WhileSendSurvives ==
    (dev.plan.whole /\ ~dev.p.panic) =>
       /\ (dev.plan.good /\ Sent(dev.plan.n + 8)) => dev.p.state = 6 /\ Dispatched
       /\ (~dev.plan.good /\ dev.pos >= dev.plan.n + 8) => Untouched
       /\ (~dev.plan.good /\ Sent(dev.plan.n + 8)) => dev.p.state = 6
       /\ (~dev.plan.good /\ Sent(dev.plan.n + 9)) => dev.p.state = 7 /\ last.ret = \h81
       /\ (~dev.plan.good /\ Sent(dev.plan.n + 10)) =>
             dev.p.state = 0 /\ last.ret = dev.p.status

\* a data packet with a wrong checksum was sent whole after one with a right
\* checksum had stored two bytes, and left them alone
C31_Reached ==
    /\ ~dev.plan.good /\ Sent(dev.plan.n + 10) /\ dev.plan.head[3] = \h04
    /\ dev.before.datacount = 2 /\ dev.p.datacount = 2 /\ ~dev.p.panic


\* C32: whatever bytes are sent, the index count at which send stores the
\* next byte is below 1024, so that neither send nor check_crc (which reads
\* up to the byte stored last) indexes the packet buffer out of bounds
C32_PacketBufferSafe ==
    /\ dev.p.count < PacketLen
    /\ dev.p.state = 5 => check_crc_in_bounds(dev.p)

\* the same of the transmissions of at most 1024 bytes
C32_WhilePacketFits ==
    PlanLen(dev.plan) <= PacketLen =>
       /\ dev.p.count < PacketLen
       /\ dev.p.state = 5 => check_crc_in_bounds(dev.p)

\* send has failed on the byte after the 1024th of a transmission
C32_Overrun ==
    dev.p.panic /\ dev.p.count = PacketLen /\ dev.pos = PacketLen + 1

\* the bytes that the data of a transmission ask receive to store, read as
\* the code reads them from index i of the packet on
RECURSIVE Out(_, _)
Out(plan, i) ==
    IF plan.head[4] = 0 THEN plan.n
    ELSE IF ~(i - 6 < plan.n) THEN 0
    ELSE IF And(ByteOf(plan, i), \h80) = 0
         THEN ByteOf(plan, i) + 1 + Out(plan, i + 2 + ByteOf(plan, i))
         ELSE And(ByteOf(plan, i), \h7F) + 2 + Out(plan, i + 2)

\* receive has failed: the command 0x04 was run at the second checksum byte
\* and indexed a buffer out of bounds
ReceiveFailed ==
    /\ dev.p.panic /\ dev.p.state = 5 /\ dev.pos <= PacketLen
    /\ dev.plan.whole /\ dev.plan.head[3] = \h04

\* C33: whatever packets with a right checksum are sent, receive stores
\* every byte inside the tile buffer and reads every byte inside the packet
\* buffer, and the data count is at most 5760
C33_TileBufferSafe == ~ReceiveFailed /\ dev.p.datacount <= DataLen

\* receive fails only on a packet that asks for more bytes than the tile
\* buffer has left after the data count, and the data count is at most 5760
C33_WhileRoom ==
    /\ dev.p.datacount <= DataLen
    /\ ReceiveFailed => dev.before.datacount + Out(dev.plan, 6) > DataLen

\* receive has failed on the run that crosses the end of the tile buffer, in
\* the first data packet sent
C33_Overflow ==
    ReceiveFailed /\ dev.focus = "runs" /\ dev.before.datacount = 0

----------------------------------------------------------------------------
(* The clock of the MBC3 on its own *)

\* a cartridge with the clock, a battery and 32K of RAM
RtcCart == Img(\h8000, 0, \h10, 0, 3, 0, 1)

\* the control write made last (a, v) and the value of the write to
\* 0x6000-0x7FFF before it (prev), beside the controller
RtcInit ==
    /\ mmu = MMU_new(get_mbc(RtcCart, FALSE).mbc, FALSE, FALSE, TRUE)
    /\ dev = [kind |-> "rtc", a |-> 0, v |-> 0, prev |-> Unset]
    /\ cpu = CPU_new
    /\ last = Idle
    /\ obs = Obs0
    /\ cart = NoCart

RtcNext ==
    \/ \E a \in {\h0000, \h4000, \h6000, \h7FFF}, v \in {\h00, \h01, \h0A, \h08, \h0C},
          now \in ClockOf(Mbc) : WriteRom(a, v, now)
    \/ \E a \in RamAddrs : ReadRam(a)
    \/ \E a \in RamAddrs, v \in {\h00, \h15, \h40}, now \in ClockOf(Mbc) : WriteRam(a, v, now)

SpecRtc == RtcInit /\ [][RtcNext]_vars

\* C24: the latched clock registers of the MBC3 change only in a write of 1
\* to 0x6000-0x7FFF whose preceding write to that range was a write of 0;
\* every other operation leaves them as they were
C24_LatchOnRisingWrite ==
    [][mmu'.mbc.rtc_ram_latch # mmu.mbc.rtc_ram_latch
          => /\ last'.op = "write_rom"
             /\ dev'.a >= \h6000 /\ dev'.v = 1 /\ dev.prev = 0]_vars

\* what the controller does: the registers are latched in every write to
\* 0x6000-0x7FFF, whatever the value written
C24_LatchOnAnyWrite ==
    [][/\ mmu'.mbc.rtc_ram_latch # mmu.mbc.rtc_ram_latch
            => last'.op = "write_rom" /\ dev'.a >= \h6000
       /\ (last'.op = "write_rom" /\ dev'.a >= \h6000)
            => mmu'.mbc.rtc_ram_latch = mmu'.mbc.rtc_ram]_vars

----------------------------------------------------------------------------
(* Work RAM banking and the registers of the Color machine *)

\* writes of each part: the bank select and bytes of both windows and of
\* their echoes, in every mode; the registers of the Color machine, in the
\* two modes that are not Color
BankWrites(focus) ==
    IF focus = "banks"
    THEN {<<\hFF70, v>> : v \in {\h00, \h02, \h07, \hFA, \hF8}}
         \cup {<<a, \h5A>> : a \in {\hC000, \hCFFF, \hD000, \hDFFF, \hE000, \hF000}}
         \cup {<<\hD000, \hA5>>}
    ELSE {<<a, v>> : a \in {\hFF4D, \hFF4F, \hFF51, \hFF52, \hFF55, \hFF6C, \hFF70,
                            \hFF72, \hFF73, \hFF75, \hFF76, \hFF77},
                     v \in {\h01, \h83}}

BankReads(focus) == {w[1] : w \in BankWrites(focus)} \cup {\hFF53, \hFF54}

BankInit ==
    /\ \E focus \in {"banks", "colour"}, f \in Modes :
          /\ focus = "colour" => f[1] = 0
          /\ mmu = MMU_new(get_mbc(Plain(f[1]), FALSE).mbc, f[2], FALSE, TRUE)
          /\ obs = [Obs0 EXCEPT !.focus = focus]
    /\ cpu = CPU_new
    /\ last = Idle
    /\ cart = NoCart
    /\ dev = NoDev

BankNext ==
    \/ \E a \in BankReads(obs.focus) : Rb(a)
    \/ \E w \in BankWrites(obs.focus), env \in Envs(mmu) : Wb(w[1], w[2], env)

SpecBank == BankInit /\ [][BankNext]_vars

\* the bank a value written to 0xFF70 selects
Selects(v) == IF v % 8 = 0 THEN 1 ELSE v % 8

\* every byte of work RAM but the one at index i stays as it was
OnlyByte(i) == \A j \in DOMAIN mmu.wram : j # i => mmu'.wram[j] = mmu.wram[j]

\* C25: the bank mapped at 0xD000-0xDFFF is always one of 1 .. 7; in Color
\* mode a write of v to 0xFF70 selects bank v & 7, and bank 1 when that is
\* 0, and a read of 0xFF70 returns the selected bank; 0xC000-0xCFFF is
\* always bank 0; a write through 0xD000-0xDFFF stores into the selected
\* bank and changes no other byte of work RAM
C25_WramBanking ==
    /\ [](mmu.wram_bank \in 1 .. 7)
    /\ [][/\ (last'.op = "wb" /\ last'.a = \hFF70 /\ mmu.gbmode = "Color")
               => /\ mmu'.wram_bank = Selects(last'.v)
                  /\ MmuRb(mmu', \hFF70) = Selects(last'.v)
          /\ (last'.op = "rb" /\ last'.a = \hFF70 /\ mmu.gbmode = "Color")
               => last'.ret = mmu.wram_bank
          /\ (last'.op = "rb" /\ last'.a \in \hC000 .. \hCFFF)
               => last'.ret = mmu.wram[last'.a - \hC000]
          /\ (last'.op = "wb" /\ last'.a \in \hC000 .. \hCFFF)
               => /\ mmu'.wram[last'.a - \hC000] = last'.v
                  /\ OnlyByte(last'.a - \hC000)
          /\ (last'.op = "rb" /\ last'.a \in \hD000 .. \hDFFF)
               => last'.ret = mmu.wram[mmu.wram_bank * \h1000 + (last'.a - \hD000)]
          /\ (last'.op = "wb" /\ last'.a \in \hD000 .. \hDFFF)
               => /\ mmu'.wram[mmu.wram_bank * \h1000 + (last'.a - \hD000)] = last'.v
                  /\ OnlyByte(mmu.wram_bank * \h1000 + (last'.a - \hD000))
                  /\ mmu'.wram_bank = mmu.wram_bank]_vars

\* bank 7 is selected by a write of 7 to 0xFF70 after a byte was stored in
\* bank 2, and a byte stored through 0xD000 leaves the one of bank 2 alone
C25_Witness ==
    /\ mmu.gbmode = "Color" /\ mmu.wram_bank = 7
    /\ last.op = "wb" /\ last.a = \hD000 /\ last.v = \hA5
    /\ mmu.wram[7 * \h1000] = \hA5 /\ mmu.wram[2 * \h1000] = \h5A
    /\ mmu.wram[0] = \h5A

\* the registers of the Color machine, and the undocumented ones
CgbOnly == {\hFF4D, \hFF4F, \hFF6C, \hFF70} \cup (\hFF51 .. \hFF55)
Undocumented == {\hFF72, \hFF73, \hFF75, \hFF76, \hFF77}

\* the speed-switch request, the registers and the status of the VRAM DMA,
\* and the work RAM bank
CgbState(m) ==
    <<m.speed_switch_req, m.hdma, m.hdma_status, m.hdma_src, m.hdma_dst, m.hdma_len,
      m.wram_bank>>

----------------------------------------------------------------------------
(* The sound unit (sound.rs): the frame sequencer, the length counters, the *)
(* envelopes, the sweep and the registers.  The generation of samples (the  *)
(* run functions of the channels with their phase, delay, amplitude and     *)
(* shift register, the blip buffers, the mixing and the wave RAM at 0xFF30  *)
(* - 0xFF3F) is left out: it reads the fields kept here and writes none of  *)
(* them.                                                                    *)

CLOCKS_PER_FRAME == 8192
OUTPUT_SAMPLE_COUNT == 2000
SWEEP_DELAY_ZERO_PERIOD == 8

VolumeEnvelope_new ==
    [period |-> 0, goes_up |-> FALSE, delay |-> 0, initial_volume |-> 0, volume |-> 0]

VolumeEnvelope_rb(e) ==
    Or(Or(Shl(And(e.initial_volume, \hF), 4), IF e.goes_up THEN \h08 ELSE 0),
       And(e.period, 7))

VolumeEnvelope_wb(e, a, v) ==
    IF a \in {\hFF12, \hFF17, \hFF21}
    THEN [e EXCEPT !.period = And(v, 7), !.goes_up = (And(v, 8) = 8),
                   !.initial_volume = Shr(v, 4), !.volume = Shr(v, 4)]
    ELSE IF a \in {\hFF14, \hFF19, \hFF23} /\ And(v, \h80) = \h80
    THEN [e EXCEPT !.delay = e.period, !.volume = e.initial_volume]
    ELSE e

VolumeEnvelope_step(e) ==
    IF e.delay > 1 THEN [e EXCEPT !.delay = @ - 1]
    ELSE IF e.delay = 1
    THEN [e EXCEPT !.delay = e.period,
                   !.volume = IF e.goes_up /\ e.volume < 15 THEN @ + 1
                              ELSE IF ~e.goes_up /\ e.volume > 0 THEN @ - 1
                              ELSE @]
    ELSE e

LengthCounter_new(max) == [enabled |-> FALSE, value |-> 0, max |-> max]

is_active(l) == l.value > 0

extra_step(frame_step) == frame_step % 2 = 1

LengthCounter_step_always(l) == IF l.value > 0 THEN [l EXCEPT !.value = @ - 1] ELSE l

LengthCounter_step(l) ==
    IF l.enabled /\ l.value > 0 THEN [l EXCEPT !.value = @ - 1] ELSE l

LengthCounter_enable(l, enable, frame_step) ==
    LET l1 == [l EXCEPT !.enabled = enable]
    IN IF ~l.enabled /\ extra_step(frame_step) THEN LengthCounter_step(l1) ELSE l1

\* max - minus_value on a u16; the callers pass at most max - 1
LengthCounter_set(l, minus_value) == [l EXCEPT !.value = (l.max - minus_value) % 65536]

LengthCounter_trigger_without_step(l, frame_step) ==
    IF l.value = 0 THEN [l EXCEPT !.value = l.max] ELSE l

LengthCounter_trigger(l, frame_step) ==
    IF l.value = 0
    THEN LET l1 == [l EXCEPT !.value = l.max]
         IN IF extra_step(frame_step) THEN LengthCounter_step(l1) ELSE l1
    ELSE l

SquareChannel_new(with_sweep) ==
    [active |-> FALSE, dac_enabled |-> FALSE, duty |-> 1,
     length |-> LengthCounter_new(64), frequency |-> 0, period |-> 2048,
     has_sweep |-> with_sweep, sweep_enabled |-> FALSE, sweep_frequency |-> 0,
     sweep_delay |-> 0, sweep_period |-> 0, sweep_shift |-> 0,
     sweep_negate |-> FALSE, sweep_did_negate |-> FALSE,
     volume_envelope |-> VolumeEnvelope_new]

Square_rb(c, a) ==
    CASE a = \hFF10 ->
            Or(Or(Or(\h80, Shl(And(c.sweep_period, 7), 4)),
                  IF c.sweep_negate THEN 8 ELSE 0), And(c.sweep_shift, 7))
      [] a \in {\hFF11, \hFF16} -> Or(Shl(And(c.duty, 3), 6), \h3F)
      [] a \in {\hFF12, \hFF17} -> VolumeEnvelope_rb(c.volume_envelope)
      [] a \in {\hFF13, \hFF18} -> \hFF
      [] a \in {\hFF14, \hFF19} -> Or(Or(\h80, IF c.length.enabled THEN \h40 ELSE 0), \h3F)
      [] OTHER -> PANIC

Square_calculate_period(c) ==
    [c EXCEPT !.period = IF c.frequency > 2047 THEN 0 ELSE (2048 - c.frequency) * 4]

\* the channel afterwards (ch) and the frequency returned (freq)
sweep_calculate_frequency(c) ==
    LET offset == Shr(c.sweep_frequency, c.sweep_shift)
        new_freq == IF c.sweep_negate THEN (c.sweep_frequency - offset) % 65536
                    ELSE (c.sweep_frequency + offset) % 65536
    IN [freq |-> new_freq,
        ch |-> [c EXCEPT !.sweep_did_negate = IF c.sweep_negate THEN TRUE ELSE @,
                         !.active = IF new_freq > 2047 THEN FALSE ELSE @]]

step_sweep(c) ==
    IF c.sweep_delay > 1 THEN [c EXCEPT !.sweep_delay = @ - 1]
    ELSE IF c.sweep_delay = 1 THEN [c EXCEPT !.sweep_delay = SWEEP_DELAY_ZERO_PERIOD]
    ELSE LET c1 == [c EXCEPT !.sweep_delay = c.sweep_period]
         IN IF ~c1.sweep_enabled THEN c1
            ELSE LET r == sweep_calculate_frequency(c1)
                 IN IF r.freq > 2047 THEN r.ch
                    ELSE LET c2 == IF r.ch.sweep_shift # 0
                                   THEN Square_calculate_period(
                                          [r.ch EXCEPT !.sweep_frequency = r.freq,
                                                       !.frequency = r.freq])
                                   ELSE r.ch
                         IN sweep_calculate_frequency(c2).ch

Square_step_length_and_stay(c) == [c EXCEPT !.length = LengthCounter_step(@)]

Square_step_length(c) ==
    LET l == LengthCounter_step(c.length)
    IN [c EXCEPT !.length = l, !.active = @ /\ is_active(l)]

\* the trigger of 0xFF14 / 0xFF19 (bit 7 of the value written)
Square_trigger(c, frame_step) ==
    LET c1 == [c EXCEPT !.active = IF c.dac_enabled THEN TRUE ELSE @,
                        !.length = LengthCounter_trigger(@, frame_step)]
    IN IF ~c1.has_sweep THEN c1
       ELSE LET c2 == [c1 EXCEPT
                         !.sweep_frequency = c1.frequency,
                         !.sweep_delay = IF c1.sweep_period = 0
                                         THEN SWEEP_DELAY_ZERO_PERIOD ELSE c1.sweep_period,
                         !.sweep_enabled = c1.sweep_period > 0 \/ c1.sweep_shift > 0]
            IN IF c2.sweep_shift > 0 THEN sweep_calculate_frequency(c2).ch ELSE c2

Square_wb(c, a, v, frame_step) ==
    LET d == CASE a = \hFF10 ->
                    [c EXCEPT !.sweep_period = And(Shr(v, 4), 7),
                              !.sweep_shift = And(v, 7),
                              !.sweep_negate = (And(v, 8) = 8),
                              !.active = IF c.sweep_negate /\ And(v, 8) # 8
                                            /\ c.sweep_did_negate THEN FALSE ELSE @,
                              !.sweep_did_negate = FALSE]
               [] a \in {\hFF11, \hFF16} ->
                    [c EXCEPT !.duty = Shr(v, 6),
                              !.length = LengthCounter_set(@, And(v, \h3F))]
               [] a \in {\hFF12, \hFF17} ->
                    [c EXCEPT !.dac_enabled = (And(v, \hF8) # 0),
                              !.active = @ /\ (And(v, \hF8) # 0)]
               [] a \in {\hFF13, \hFF18} ->
                    Square_calculate_period(
                      [c EXCEPT !.frequency = Or(And(@, \h0700), v)])
               [] a \in {\hFF14, \hFF19} ->
                    LET c1 == Square_calculate_period(
                                [c EXCEPT !.frequency = Or(And(@, \h00FF), Shl(And(v, 7), 8))])
                        l == LengthCounter_enable(c1.length, And(v, \h40) = \h40, frame_step)
                        c2 == [c1 EXCEPT !.length = l, !.active = @ /\ is_active(l)]
                    IN IF And(v, \h80) = \h80 THEN Square_trigger(c2, frame_step) ELSE c2
               [] OTHER -> c
    IN [d EXCEPT !.volume_envelope = VolumeEnvelope_wb(@, a, v)]

WaveChannel_new(dmg_mode) ==
    [active |-> FALSE, dac_enabled |-> FALSE, length |-> LengthCounter_new(256),
     frequency |-> 0, period |-> 2048, volume_shift |-> 0, dmg_mode |-> dmg_mode]

Wave_rb(c, a) ==
    CASE a = \hFF1A -> Or(IF c.dac_enabled THEN \h80 ELSE 0, \h7F)
      [] a \in {\hFF1B, \hFF1D} -> \hFF
      [] a = \hFF1C -> Or(Or(\h80, Shl(And(c.volume_shift, 3), 5)), \h1F)
      [] a = \hFF1E -> Or(Or(\h80, IF c.length.enabled THEN \h40 ELSE 0), \h3F)
      [] OTHER -> PANIC

Wave_calculate_period(c) ==
    [c EXCEPT !.period = IF c.frequency > 2048 THEN 0 ELSE (2048 - c.frequency) * 2]

Wave_wb(c, a, v, frame_step) ==
    CASE a = \hFF1A ->
            [c EXCEPT !.dac_enabled = (And(v, \h80) = \h80),
                      !.active = @ /\ (And(v, \h80) = \h80)]
      [] a = \hFF1B -> [c EXCEPT !.length = LengthCounter_set(@, v)]
      [] a = \hFF1C -> [c EXCEPT !.volume_shift = And(Shr(v, 5), 3)]
      [] a = \hFF1D ->
            Wave_calculate_period([c EXCEPT !.frequency = Or(And(@, \h0700), v)])
      [] a = \hFF1E ->
            LET c1 == Wave_calculate_period(
                        [c EXCEPT !.frequency = Or(And(@, \h00FF), Shl(And(v, 7), 8))])
                l == LengthCounter_enable(c1.length, And(v, \h40) = \h40, frame_step)
                c2 == [c1 EXCEPT !.length = l, !.active = @ /\ is_active(l)]
            IN IF And(v, \h80) = \h80
               THEN [c2 EXCEPT !.length = LengthCounter_trigger(@, frame_step),
                               !.active = IF c2.dac_enabled THEN TRUE ELSE @]
               ELSE c2
      [] OTHER -> c

Wave_step_length(c) ==
    LET l == LengthCounter_step(c.length)
    IN [c EXCEPT !.length = l, !.active = @ /\ is_active(l)]

NoiseChannel_new ==
    [active |-> FALSE, dac_enabled |-> FALSE, reg_ff22 |-> 0,
     length |-> LengthCounter_new(64), volume_envelope |-> VolumeEnvelope_new,
     period |-> 2048, shift_width |-> 14]

Noise_rb(c, a) ==
    CASE a = \hFF20 -> \hFF
      [] a = \hFF21 -> VolumeEnvelope_rb(c.volume_envelope)
      [] a = \hFF22 -> c.reg_ff22
      [] a = \hFF23 -> Or(Or(\h80, IF c.length.enabled THEN \h40 ELSE 0), \h3F)
      [] OTHER -> PANIC

Noise_wb(c, a, v, frame_step) ==
    LET d == CASE a = \hFF20 -> [c EXCEPT !.length = LengthCounter_set(@, And(v, \h3F))]
               [] a = \hFF21 ->
                    [c EXCEPT !.dac_enabled = (And(v, \hF8) # 0),
                              !.active = @ /\ (And(v, \hF8) # 0)]
               [] a = \hFF22 ->
                    [c EXCEPT !.reg_ff22 = v,
                              !.shift_width = IF And(v, 8) = 8 THEN 6 ELSE 14,
                              !.period = Shl(IF And(v, 7) = 0 THEN 8 ELSE And(v, 7) * 16,
                                             Shr(v, 4))]
               [] a = \hFF23 ->
                    LET l == LengthCounter_enable(c.length, And(v, \h40) = \h40, frame_step)
                        c2 == [c EXCEPT !.length = l, !.active = @ /\ is_active(l)]
                    IN IF And(v, \h80) = \h80
                       THEN [c2 EXCEPT !.length = LengthCounter_trigger(@, frame_step),
                                       !.active = IF c2.dac_enabled THEN TRUE ELSE @]
                       ELSE c2
    IN [d EXCEPT !.volume_envelope = VolumeEnvelope_wb(@, a, v)]

Noise_step_length(c) ==
    LET l == LengthCounter_step(c.length)
    IN [c EXCEPT !.length = l, !.active = @ /\ is_active(l)]

\* (OUTPUT_SAMPLE_COUNT * CLOCKS_PER_SECOND) / samples_rate, a u64 division;
\* the product is 16 * 524288000 and is divided in two parts
OutputPeriod(samples_rate) ==
    16 * (524288000 \div samples_rate) + (16 * (524288000 % samples_rate)) \div samples_rate

\* clk counts the frame steps run and the clocks they gave (an observer);
\* batch tells whether the output batch made last was mixed or cleared;
\* overflow_checks tells whether the build panics on arithmetic overflow
Sound_create(samples_rate, dmg_mode) ==
    [on |-> FALSE, time |-> 0, prev_time |-> 0, next_time |-> CLOCKS_PER_FRAME,
     frame_step |-> 0, output_period |-> OutputPeriod(samples_rate),
     channel1 |-> SquareChannel_new(TRUE), channel2 |-> SquareChannel_new(FALSE),
     channel3 |-> WaveChannel_new(dmg_mode), channel4 |-> NoiseChannel_new,
     volume_left |-> 7, volume_right |-> 7, reg_vin_to_so |-> 0, reg_ff25 |-> 0,
     need_sync |-> FALSE, dmg_mode |-> dmg_mode,
     clk |-> [steps |-> 0, length |-> 0, sweep |-> 0, envelope |-> 0],
     batch |-> "none", overflow_checks |-> TRUE, panic |-> FALSE]

clocks_length_every_step(frame_step) == TRUE

\* the frame steps that clock the length counters
clocks_length(frame_step) == frame_step % 2 = 0

\* one turn of the loop of run: the frame step at next_time
frame(s) ==
    LET s1 == IF clocks_length(s.frame_step)
              THEN [s EXCEPT !.channel1 = Square_step_length(@),
                             !.channel2 = Square_step_length(@),
                             !.channel3 = Wave_step_length(@),
                             !.channel4 = Noise_step_length(@),
                             !.clk.length = @ + 1]
              ELSE s
        s2 == IF s1.frame_step % 4 = 2
              THEN [s1 EXCEPT !.channel1 = step_sweep(@), !.clk.sweep = @ + 1]
              ELSE s1
        s3 == IF s2.frame_step = 7
              THEN [s2 EXCEPT
                      !.channel1.volume_envelope = VolumeEnvelope_step(@),
                      !.channel2.volume_envelope = VolumeEnvelope_step(@),
                      !.channel4.volume_envelope = VolumeEnvelope_step(@),
                      !.clk.envelope = @ + 1]
              ELSE s2
    IN [s3 EXCEPT !.frame_step = (@ + 1) % 8, !.clk.steps = @ + 1,
                  !.prev_time = s.next_time, !.next_time = @ + CLOCKS_PER_FRAME]

RECURSIVE run_loop(_)
run_loop(s) == IF s.next_time <= s.time THEN run_loop(frame(s)) ELSE s

Sound_run(s) == [run_loop(s) EXCEPT !.prev_time = s.time]

\* rb: the sound afterwards is Sound_run(s)
Sound_rb(s, a) ==
    LET r == Sound_run(s)
    IN CASE a \in \hFF10 .. \hFF14 -> Square_rb(r.channel1, a)
         [] a \in \hFF16 .. \hFF19 -> Square_rb(r.channel2, a)
         [] a \in \hFF1A .. \hFF1E -> Wave_rb(r.channel3, a)
         [] a \in \hFF20 .. \hFF23 -> Noise_rb(r.channel4, a)
         [] a = \hFF24 ->
               Or(Or(Shl(And(r.volume_right, 7), 4), And(r.volume_left, 7)), r.reg_vin_to_so)
         [] a = \hFF25 -> r.reg_ff25
         [] a = \hFF26 ->
               Or(Or(Or(Or(Or(IF r.on THEN \h80 ELSE 0, \h70),
                           IF r.channel4.active THEN 8 ELSE 0),
                        IF r.channel3.active THEN 4 ELSE 0),
                     IF r.channel2.active THEN 2 ELSE 0),
                  IF r.channel1.active THEN 1 ELSE 0)
         [] OTHER -> \hFF

\* the match of wb for the registers other than 0xFF26, on the sound r that
\* run has left
wb_match(r, a, v) ==
    CASE a \in \hFF10 .. \hFF14 ->
            [r EXCEPT !.channel1 = Square_wb(@, a, v, r.frame_step)]
      [] a \in \hFF16 .. \hFF19 ->
            [r EXCEPT !.channel2 = Square_wb(@, a, v, r.frame_step)]
      [] a \in \hFF1A .. \hFF1E ->
            [r EXCEPT !.channel3 = Wave_wb(@, a, v, r.frame_step)]
      [] a \in \hFF20 .. \hFF23 ->
            [r EXCEPT !.channel4 = Noise_wb(@, a, v, r.frame_step)]
      [] a = \hFF24 ->
            [r EXCEPT !.volume_left = And(v, 7), !.volume_right = And(Shr(v, 4), 7),
                      !.reg_vin_to_so = And(v, \h88)]
      [] a = \hFF25 -> [r EXCEPT !.reg_ff25 = v]
      [] OTHER -> r

\* wb of a register other than 0xFF26 while the sound is on
wb_register(s, a, v) == wb_match(Sound_run(s), a, v)

\* for i in 0xFF10 ..= 0xFF25 { self.wb(i, 0) } on the sound r that run has
\* left: every wb of the loop calls run, which finds nothing to do, and writes
\* 0 to one register; the registers of a channel are written in rising order
\* and a write to one channel reads nothing of another
RECURSIVE square_off(_, _, _, _)
square_off(c, a, end, frame_step) ==
    IF a > end THEN c ELSE square_off(Square_wb(c, a, 0, frame_step), a + 1, end, frame_step)

RECURSIVE wave_off(_, _, _, _)
wave_off(c, a, end, frame_step) ==
    IF a > end THEN c ELSE wave_off(Wave_wb(c, a, 0, frame_step), a + 1, end, frame_step)

RECURSIVE noise_off(_, _, _, _)
noise_off(c, a, end, frame_step) ==
    IF a > end THEN c ELSE noise_off(Noise_wb(c, a, 0, frame_step), a + 1, end, frame_step)

power_off_volumes_only(r) ==
    [r EXCEPT !.volume_left = 0, !.volume_right = 0, !.reg_vin_to_so = 0,
              !.reg_ff25 = 0]

power_off(r) ==
    [r EXCEPT !.channel1 = square_off(@, \hFF10, \hFF14, r.frame_step),
              !.channel2 = square_off(@, \hFF16, \hFF19, r.frame_step),
              !.channel3 = wave_off(@, \hFF1A, \hFF1E, r.frame_step),
              !.channel4 = noise_off(@, \hFF20, \hFF23, r.frame_step),
              !.volume_left = 0, !.volume_right = 0, !.reg_vin_to_so = 0,
              !.reg_ff25 = 0]

\* what wb does before its match while the sound is off
wb_while_off(s, a, v) ==
    IF ~s.dmg_mode THEN s
    ELSE CASE a = \hFF11 ->
                 [s EXCEPT !.channel1 = Square_wb(@, a, And(v, \h3F), s.frame_step)]
           [] a = \hFF16 ->
                 [s EXCEPT !.channel2 = Square_wb(@, a, And(v, \h3F), s.frame_step)]
           [] a = \hFF1B -> [s EXCEPT !.channel3 = Wave_wb(@, a, v, s.frame_step)]
           [] a = \hFF20 ->
                 [s EXCEPT !.channel4 = Noise_wb(@, a, And(v, \h3F), s.frame_step)]
           [] OTHER -> s

\* the arm of 0xFF26 on the sound r that run has left
wb_power(r, turn_on) ==
    [(IF r.on /\ ~turn_on THEN power_off(r) ELSE r)
       EXCEPT !.frame_step = IF ~r.on /\ turn_on THEN 0 ELSE @,
              !.on = turn_on]

Sound_wb(s, a, v) ==
    IF ~s.on /\ a # \hFF26 THEN wb_while_off(s, a, v)
    ELSE IF ~s.on THEN wb_power(Sound_run(wb_while_off(s, a, v)), And(v, \h80) = \h80)
    ELSE IF a # \hFF26 THEN wb_register(s, a, v)
    ELSE wb_power(Sound_run(s), And(v, \h80) = \h80)

do_output_always_mixed(s, underflowed) ==
    [Sound_run(s) EXCEPT !.next_time = @ - Sound_run(s).time, !.time = 0,
                         !.prev_time = 0, !.need_sync = FALSE, !.batch = "mixed"]

\* underflowed: the answer of player.underflowed()
do_output(s, underflowed) ==
    LET r == Sound_run(s)
        r1 == [r EXCEPT !.next_time = @ - r.time, !.time = 0, !.prev_time = 0]
    IN IF ~r1.need_sync \/ underflowed
       THEN [r1 EXCEPT !.need_sync = FALSE, !.batch = "mixed"]
       ELSE [r1 EXCEPT !.batch = "cleared"]

\* cycles is a u32: a value of 2^31 or more is written cycles - 2^32, so
\* that time + cycles is the sum modulo 2^32 when the sum passes 2^32
Sound_do_cycle(s, cycles, underflowed) ==
    IF ~s.on THEN s
    ELSE IF cycles < 0 /\ s.overflow_checks THEN [s EXCEPT !.panic = TRUE]
    ELSE LET s1 == [s EXCEPT !.time = @ + cycles]
         IN IF s1.time >= s1.output_period THEN do_output(s1, underflowed) ELSE s1

sync(s) == [s EXCEPT !.need_sync = TRUE]

----------------------------------------------------------------------------
(* The sound unit driven through rb, wb, do_cycle and sync.  total is the   *)
(* number of cycles given to do_cycle while the sound was on, mark the      *)
(* number of frame boundaries total had crossed when the sound was last     *)
(* turned on; clk is counted from there.                                    *)

MaxFrames == 17

\* the frames given to the foci on one channel
MaxChannelFrames == 2

Frames(focus) == IF focus = "seq" THEN MaxFrames ELSE MaxChannelFrames

SampleRates == {44100, 192000}

Chunks(focus) == IF focus = "seq" THEN {4096, 8192, 45056} ELSE {8192}

\* the power is turned off again in two of the foci
Power(focus) ==
    IF focus \in {"seq", "square1"} THEN {<<\hFF26, \h80>>, <<\hFF26, \h00>>}
    ELSE {<<\hFF26, \h80>>}

SoundWrites(focus) ==
    Power(focus) \cup
    CASE focus = "seq" -> {}
      [] focus = "square1" ->
            {<<\hFF11, \h3F>>, <<\hFF11, \h00>>, <<\hFF12, \h08>>, <<\hFF12, \h00>>,
             <<\hFF14, \h00>>, <<\hFF14, \h40>>, <<\hFF14, \h80>>, <<\hFF14, \hC0>>}
      [] focus = "square2" ->
            {<<\hFF16, \h3F>>, <<\hFF16, \h00>>, <<\hFF17, \h08>>, <<\hFF17, \h00>>,
             <<\hFF19, \h00>>, <<\hFF19, \h40>>, <<\hFF19, \h80>>, <<\hFF19, \hC0>>}
      [] focus = "wave" ->
            {<<\hFF1B, \hFF>>, <<\hFF1B, \h00>>, <<\hFF1A, \h80>>, <<\hFF1A, \h00>>,
             <<\hFF1E, \h00>>, <<\hFF1E, \h40>>, <<\hFF1E, \h80>>, <<\hFF1E, \hC0>>}
      [] focus = "noise" ->
            {<<\hFF20, \h3F>>, <<\hFF20, \h00>>, <<\hFF21, \h08>>, <<\hFF21, \h00>>,
             <<\hFF23, \h00>>, <<\hFF23, \h40>>, <<\hFF23, \h80>>, <<\hFF23, \hC0>>}

SoundReads == {\hFF26}

\* the channels that report on()
On(s) == {n \in 1 .. 4 : <<s.channel1, s.channel2, s.channel3, s.channel4>>[n].active}

\* the operation made last, the channels that were on before it and what
\* player.underflowed() answered during it ("none": it was not called)
Did(op, before) == [op |-> op, was |-> On(before), heard |-> "none"]

\* do_output calls player.underflowed() when a sync is pending
Heard(s, cycles, underflowed) ==
    IF s.on /\ s.time + cycles >= s.output_period /\ s.need_sync
    THEN (IF underflowed THEN "yes" ELSE "no") ELSE "none"

SoundFoci == {"seq", "square1", "square2", "wave", "noise"}

SoundInit ==
    /\ mmu = MMU_new(get_mbc(Plain(0), FALSE).mbc, FALSE, TRUE, TRUE)
    /\ cpu = CPU_new
    /\ last = Idle
    /\ obs = Obs0
    /\ cart = NoCart
    /\ \E focus \in SoundFoci, rate \in SampleRates, dmg_mode \in BOOLEAN :
          /\ focus # "seq" => rate = 192000
          /\ focus = "seq" => dmg_mode
          /\ dev = [kind |-> "sound", focus |-> focus,
                    s |-> Sound_create(rate, dmg_mode),
                    total |-> 0, mark |-> 0,
                    did |-> Did("create", Sound_create(rate, dmg_mode))]

SoundRb(a) ==
    /\ dev' = [dev EXCEPT !.s = Sound_run(dev.s),
                          !.did = Did("rb", dev.s)]
    /\ Sound_rb(dev.s, a) \in 0 .. 255
    /\ UNCHANGED <<mmu, cpu, last, obs, cart>>

SoundWb(a, v) ==
    LET w == Sound_wb(dev.s, a, v)
        turned_on == ~dev.s.on /\ w.on
    IN /\ dev' = [dev EXCEPT
                    !.s = IF turned_on THEN [w EXCEPT !.clk = Sound_create(44100, TRUE).clk]
                          ELSE w,
                    !.mark = IF turned_on THEN dev.total \div CLOCKS_PER_FRAME ELSE @,
                    !.did = Did("wb", dev.s)]
       /\ UNCHANGED <<mmu, cpu, last, obs, cart>>

SoundCycle(cycles, underflowed) ==
    /\ ~dev.s.panic
    /\ dev.s.on => dev.total + cycles <= Frames(dev.focus) * CLOCKS_PER_FRAME
    /\ dev' = [dev EXCEPT
                 !.s = Sound_do_cycle(dev.s, cycles, underflowed),
                 !.total = IF dev.s.on THEN @ + cycles ELSE @,
                 !.did = [Did("do_cycle", dev.s) EXCEPT
                            !.heard = Heard(dev.s, cycles, underflowed)]]
    /\ UNCHANGED <<mmu, cpu, last, obs, cart>>

SoundSync ==
    /\ dev.focus = "seq"
    /\ dev' = [dev EXCEPT !.s = sync(dev.s),
                          !.did = Did("sync", dev.s)]
    /\ UNCHANGED <<mmu, cpu, last, obs, cart>>

SoundNext ==
    \/ \E a \in SoundReads : SoundRb(a)
    \/ \E w \in SoundWrites(dev.focus) : SoundWb(w[1], w[2])
    \/ \E cycles \in Chunks(dev.focus), underflowed \in BOOLEAN :
          SoundCycle(cycles, underflowed)
    \/ SoundSync

SpecSound == SoundInit /\ [][SoundNext]_vars

\* what an access to the sound unit finds: run comes first in rb and in wb
Seen == Sound_run(dev.s)

\* the frame steps among the first k of a round begun at step 0 that satisfy
\* step % n = r
Clocked(k, n, r) == (k + n - 1 - r) \div n

\* C27: the frame steps run since the sound was turned on are the frame
\* boundaries (multiples of 8192 cycles) the time given to do_cycle has
\* crossed since, however the cycles were split and whichever accesses came
\* between; frame_step is their number modulo 8; the lengths were clocked at
\* the steps 0, 2, 4, 6, the sweep at 2 and 6, the envelopes at 7
C27_FrameSequencer ==
    LET k == Seen.clk.steps
    IN /\ k = dev.total \div CLOCKS_PER_FRAME - dev.mark
       /\ Seen.frame_step = k % 8
       /\ Seen.clk.length = Clocked(k, 2, 0)
       /\ Seen.clk.sweep = Clocked(k, 4, 2)
       /\ Seen.clk.envelope = Clocked(k, 8, 7)
       /\ Clocked(8, 2, 0) = 4 /\ Clocked(8, 4, 2) = 2 /\ Clocked(8, 8, 7) = 1

\* two rounds of eight steps were run, the cycles came in unequal pieces and
\* an output batch was made on the way
C27_Witness ==
    /\ dev.s.clk.steps >= 16 /\ dev.s.clk.envelope = 2 /\ dev.s.clk.length = 8
    /\ dev.total % CLOCKS_PER_FRAME # 0
    /\ dev.s.batch = "mixed"
    /\ dev.did.op = "rb"

----------------------------------------------------------------------------
(* The output batches, under SpecSound.                                     *)

\* the step is a do_cycle that made an output batch: do_output leaves time at
\* 0, any other do_cycle of a sound that is on leaves it larger than before
Batch == dev'.did.op = "do_cycle" /\ dev.s.on /\ dev'.s.time <= dev.s.time

\* C39: while a sync is pending a batch made when player.underflowed() is
\* false is discarded and leaves the sync pending; the batch made when it is
\* true is mixed and ends the sync; with no sync pending every batch is
\* mixed, and underflowed() is not asked; a sync is pending from a call of
\* sync() on and ends in no other way
C39_AudioSync ==
    /\ [][Batch =>
            /\ dev.s.need_sync => dev'.did.heard # "none"
            /\ dev.s.need_sync /\ dev'.did.heard = "no"
                  => dev'.s.batch = "cleared" /\ dev'.s.need_sync
            /\ dev.s.need_sync /\ dev'.did.heard = "yes"
                  => dev'.s.batch = "mixed" /\ ~dev'.s.need_sync
            /\ ~dev.s.need_sync
                  => /\ dev'.s.batch = "mixed" /\ ~dev'.s.need_sync
                     /\ dev'.did.heard = "none"]_vars
    /\ [][dev'.did.op = "sync" => dev'.s.need_sync]_vars
    /\ [][dev'.s.need_sync # dev.s.need_sync
            => dev'.did.op = "sync" \/ (Batch /\ dev'.did.heard = "yes")]_vars

\* a batch was discarded while the sync was pending
C39_Discarded ==
    /\ dev.did.op = "do_cycle" /\ dev.did.heard = "no"
    /\ dev.s.batch = "cleared" /\ dev.s.need_sync /\ dev.s.time = 0

\* the batch that ends a sync: underflowed() was true
C39_Witness ==
    /\ dev.did.op = "do_cycle" /\ dev.did.heard = "yes"
    /\ dev.s.batch = "mixed" /\ ~dev.s.need_sync /\ dev.s.time = 0
    /\ dev.total >= 2 * 45056

----------------------------------------------------------------------------
(* The timeline of the sound unit (time, prev_time, next_time, frame_step)  *)
(* under do_cycle with any u32 of cycles, in builds with and without        *)
(* overflow checks.                                                         *)

\* the frames given to do_cycle
MaxTimelineFrames == 8

\* half a frame, five and a half frames, and 2^32 - 12288 cycles
TimelineChunks == {4096, 45056, 0 - 12288}

\* the cycles a chunk counts for against MaxTimelineFrames
Cost(cycles) == IF cycles < 0 THEN 0 - cycles ELSE cycles

\* wrapped: a do_cycle took time + cycles past 2^32
TimelineInit ==
    /\ mmu = MMU_new(get_mbc(Plain(0), FALSE).mbc, FALSE, TRUE, TRUE)
    /\ cpu = CPU_new
    /\ last = Idle
    /\ obs = Obs0
    /\ cart = NoCart
    /\ \E checks \in BOOLEAN :
          dev = [kind |-> "sound", focus |-> "timeline",
                 s |-> [Sound_create(192000, FALSE) EXCEPT !.overflow_checks = checks],
                 total |-> 0, mark |-> 0, wrapped |-> FALSE,
                 did |-> Did("create", Sound_create(192000, FALSE))]

TimelineRb ==
    /\ ~dev.s.panic
    /\ dev' = [dev EXCEPT !.s = Sound_run(dev.s), !.did = Did("rb", dev.s)]
    /\ Sound_rb(dev.s, \hFF26) \in 0 .. 255
    /\ UNCHANGED <<mmu, cpu, last, obs, cart>>

TimelineWb(v) ==
    /\ ~dev.s.panic
    /\ dev' = [dev EXCEPT !.s = Sound_wb(dev.s, \hFF26, v), !.did = Did("wb", dev.s)]
    /\ UNCHANGED <<mmu, cpu, last, obs, cart>>

\* a sum that passes 2^32 is followed; a sum of 2^31 or more that does not
\* is left out
TimelineCycle(cycles, underflowed) ==
    /\ ~dev.s.panic
    /\ dev.s.time + cycles >= 0
    /\ dev.total + Cost(cycles) <= MaxTimelineFrames * CLOCKS_PER_FRAME
    /\ dev' = [dev EXCEPT
                 !.s = Sound_do_cycle(dev.s, cycles, underflowed),
                 !.total = @ + Cost(cycles),
                 !.wrapped = @ \/ (dev.s.on /\ cycles < 0),
                 !.did = [Did("do_cycle", dev.s) EXCEPT
                            !.heard = Heard(dev.s, cycles, underflowed)]]
    /\ UNCHANGED <<mmu, cpu, last, obs, cart>>

TimelineNext ==
    \/ TimelineRb
    \/ \E v \in {\h80, \h00} : TimelineWb(v)
    \/ \E cycles \in TimelineChunks : TimelineCycle(cycles, TRUE)

SpecTimeline == TimelineInit /\ [][TimelineNext]_vars

\* what run leaves: prev_time = time, time < next_time <= time + 8192 and a
\* frame step in 0 .. 7
AfterRun(r) ==
    /\ r.prev_time = r.time
    /\ r.time < r.next_time /\ r.next_time <= r.time + CLOCKS_PER_FRAME
    /\ r.frame_step \in 0 .. 7

\* the timeline of a sound that has not panicked; do_output asserts
\* time = prev_time on what run leaves
Timeline ==
    /\ AfterRun(Sound_run(dev.s))
    /\ dev.s.next_time > 0
    /\ dev.did.op = "do_cycle" /\ dev.s.on => dev.s.time < dev.s.output_period

C40_WhileTimeFits == ~dev.wrapped => ~dev.s.panic /\ Timeline

\* a do_cycle took the time back to 0 in a build without overflow checks:
\* the next frame step is two frames away
C40_Wrapped ==
    /\ dev.did.op = "do_cycle" /\ dev.wrapped /\ ~dev.s.panic
    /\ dev.s.on /\ dev.s.time = 0 /\ dev.s.next_time = 2 * CLOCKS_PER_FRAME

\* the same do_cycle in a build with overflow checks panics
C40_Panicked == dev.wrapped /\ dev.s.panic /\ dev.s.overflow_checks

----------------------------------------------------------------------------
(* The power switch of the sound unit (0xFF26), on a Color unit whose four  *)
(* channels, volumes and panning are set up by writes.                      *)

\* the power on and off; the volumes and the panning; for each channel its
\* DAC or envelope register and a trigger
PowerWrites ==
    {<<\hFF26, \h80>>, <<\hFF26, \h00>>, <<\hFF24, \h77>>, <<\hFF25, \hF3>>,
     <<\hFF12, \hF3>>, <<\hFF14, \h80>>, <<\hFF17, \hF3>>, <<\hFF19, \h80>>,
     <<\hFF1A, \h80>>, <<\hFF1E, \h80>>, <<\hFF21, \hF3>>, <<\hFF23, \h80>>}

PowerInit ==
    /\ mmu = MMU_new(get_mbc(Plain(0), FALSE).mbc, FALSE, TRUE, TRUE)
    /\ cpu = CPU_new
    /\ last = Idle
    /\ obs = Obs0
    /\ cart = NoCart
    /\ dev = [kind |-> "sound", focus |-> "power",
              s |-> Sound_create(44100, FALSE),
              total |-> 0, mark |-> 0,
              did |-> Did("create", Sound_create(44100, FALSE))]

PowerNext ==
    \/ \E w \in PowerWrites : SoundWb(w[1], w[2])
    \/ SoundCycle(CLOCKS_PER_FRAME, FALSE)

SpecPower == PowerInit /\ [][PowerNext]_vars

\* what the registers read after the power was turned off: the four channels
\* and the power off in 0xFF26, 0 in 0xFF24 and 0xFF25 and in the envelope
\* registers
PoweredOff(s) ==
    /\ And(Sound_rb(s, \hFF26), \h8F) = 0
    /\ Sound_rb(s, \hFF24) = 0 /\ Sound_rb(s, \hFF25) = 0
    /\ Sound_rb(s, \hFF12) = 0 /\ Sound_rb(s, \hFF17) = 0 /\ Sound_rb(s, \hFF21) = 0

\* C38: a write that turns the sound off (0xFF26 with bit 7 clear while it is
\* on) leaves the four channels off, 0 in 0xFF24 and 0xFF25 and 0 in the
\* envelope registers; a write that turns it on sets frame_step to 0; a write
\* made while the sound is off that does not turn it on changes nothing on a
\* Color unit
C38_PowerOff ==
    [][dev'.did.op = "wb"
         => /\ dev.s.on /\ ~dev'.s.on => PoweredOff(dev'.s)
            /\ ~dev.s.on /\ dev'.s.on => dev'.s.frame_step = 0
            /\ ~dev.s.on /\ ~dev'.s.on /\ ~dev.s.dmg_mode => dev'.s = dev.s]_vars

\* the power was turned off while the four channels were on
C38_Witness ==
    /\ dev.focus = "power" /\ dev.did.op = "wb"
    /\ dev.did.was = {1, 2, 3, 4} /\ ~dev.s.on

\* the power is back on after frame steps were run: the frame step is 0 again
C38_BackOn ==
    /\ dev.focus = "power" /\ dev.did.op = "wb" /\ dev.s.on
    /\ dev.total = 2 * CLOCKS_PER_FRAME /\ dev.s.frame_step = 0

----------------------------------------------------------------------------
(* A length counter on its own, driven by the calls the channels make:      *)
(* step from step_length, enable and trigger from the writes to NRx4, set    *)
(* from the writes to NRx1 with the value the channel passes (v & 0x3F for   *)
(* the squares and the noise, v for the wave).                               *)

\* the max of the squares and the noise, and of the wave
LengthMaxes == {64, 256}

\* the values passed to set: the ends of the range the channel can pass
MinusValues(max) == {0, 1, 2, max - 2, max - 1}

LengthInit ==
    /\ mmu = MMU_new(get_mbc(Plain(0), FALSE).mbc, FALSE, TRUE, TRUE)
    /\ cpu = CPU_new
    /\ last = Idle
    /\ obs = Obs0
    /\ cart = NoCart
    /\ \E max \in LengthMaxes :
          dev = [kind |-> "length", l |-> LengthCounter_new(max),
                 did |-> [op |-> "new", before |-> LengthCounter_new(max), odd |-> FALSE]]

LengthDid(l, op, frame_step) ==
    /\ dev' = [dev EXCEPT !.l = l,
                          !.did = [op |-> op, before |-> dev.l,
                                   odd |-> extra_step(frame_step)]]
    /\ UNCHANGED <<mmu, cpu, last, obs, cart>>

LengthStep == LengthDid(LengthCounter_step(dev.l), "step", 0)

LengthTrigger(frame_step) ==
    LengthDid(LengthCounter_trigger(dev.l, frame_step), "trigger", frame_step)

LengthEnable(enable, frame_step) ==
    LengthDid(LengthCounter_enable(dev.l, enable, frame_step), "enable", frame_step)

LengthSet(minus_value) == LengthDid(LengthCounter_set(dev.l, minus_value), "set", 0)

LengthNext ==
    \/ LengthStep
    \/ \E frame_step \in 0 .. 7 : LengthTrigger(frame_step)
    \/ \E enable \in BOOLEAN, frame_step \in 0 .. 7 : LengthEnable(enable, frame_step)
    \/ \E minus_value \in MinusValues(dev.l.max) : LengthSet(minus_value)

SpecLength == LengthInit /\ [][LengthNext]_vars

\* a length clock takes 1 from the value iff the counter is enabled and the
\* value is above 0, and changes nothing else
StepClause ==
    dev.did.op = "step" =>
       dev.l = [dev.did.before EXCEPT
                  !.value = IF dev.did.before.enabled /\ @ > 0 THEN @ - 1 ELSE @]

\* the value stays within 0 .. max, and max is 64 or 256
RangeClause == dev.l.max \in LengthMaxes /\ dev.l.value \in 0 .. dev.l.max

\* C28 as built: a length clock takes 1 from the value iff the counter is
\* enabled and the value is above 0; a trigger leaves a value other than 0
\* alone and reloads a value of 0 to max, or to max - 1 when the trigger comes
\* at an odd frame step while the counter is enabled; the value stays within
\* 0 .. max
C28_LengthCounterAsBuilt ==
    /\ StepClause
    /\ RangeClause
    /\ dev.did.op = "trigger" =>
          dev.l = [dev.did.before EXCEPT
                     !.value = IF @ # 0 THEN @
                               ELSE IF dev.did.odd /\ dev.did.before.enabled
                               THEN dev.l.max - 1 ELSE dev.l.max]

\* C28 as stated: the same with a trigger that reloads a value of 0 to max
\* in every case
C28_LengthCounter ==
    /\ StepClause
    /\ RangeClause
    /\ dev.did.op = "trigger" =>
          dev.l.value = IF dev.did.before.value = 0 THEN dev.l.max
                        ELSE dev.did.before.value

\* a trigger of an enabled wave counter at 0 on an odd frame step, which
\* leaves 255
C28_Witness ==
    /\ dev.did.op = "trigger" /\ dev.did.odd
    /\ dev.did.before.value = 0 /\ dev.did.before.enabled
    /\ dev.l.max = 256 /\ dev.l.value = 255

\* C37 as built: a trigger of a counter whose value is 0 sets the value to
\* max, and to max - 1 when the frame step is odd and the counter is enabled
C37_TriggerQuirkAsBuilt ==
    dev.did.op = "trigger" /\ dev.did.before.value = 0
        => dev.l.value = IF dev.did.odd /\ dev.did.before.enabled
                         THEN dev.l.max - 1 ELSE dev.l.max

\* C37 as stated: a trigger of a counter whose value is 0 sets the value to
\* max on an even frame step and to max - 1 on an odd one
C37_TriggerQuirk ==
    dev.did.op = "trigger" /\ dev.did.before.value = 0
        => dev.l.value = IF dev.did.odd THEN dev.l.max - 1 ELSE dev.l.max

\* a trigger of an enabled square or noise counter at 0 on an odd frame step,
\* which leaves 63
C37_Witness ==
    /\ dev.did.op = "trigger" /\ dev.did.odd
    /\ dev.did.before.value = 0 /\ dev.did.before.enabled
    /\ dev.l.max = 64 /\ dev.l.value = 63

\* a trigger of a counter at 0 that is not enabled, on an odd frame step: the
\* value is max
C37_NotEnabled ==
    /\ dev.did.op = "trigger" /\ dev.did.odd
    /\ dev.did.before.value = 0 /\ ~dev.did.before.enabled
    /\ dev.l.value = dev.l.max

----------------------------------------------------------------------------
(* The square channel with the sweep on its own: the writes of 0xFF10 to    *)
(* 0xFF14 and the sweep clocks of the frame sequencer (step_sweep).         *)

\* the sweep clocks given after a trigger
MaxSweepTicks == 17

\* sweeps of period 1, 2, 7 and 0, shifts 1, 7 and 0, upwards and downwards;
\* the DAC on; frequencies 0x400 and 0x700, with and without a trigger
SweepWrites ==
    {<<\hFF10, \h11>>, <<\hFF10, \h19>>, <<\hFF10, \h27>>, <<\hFF10, \h01>>,
     <<\hFF10, \h70>>, <<\hFF12, \hF0>>, <<\hFF13, \h00>>, <<\hFF14, \h84>>,
     <<\hFF14, \h87>>, <<\hFF14, \h04>>}

\* c is the channel; armed holds from a trigger to the next write of 0xFF10
\* and n counts the sweep clocks since the trigger
SweepInit ==
    /\ mmu = MMU_new(get_mbc(Plain(0), FALSE).mbc, FALSE, TRUE, TRUE)
    /\ cpu = CPU_new
    /\ last = Idle
    /\ obs = Obs0
    /\ cart = NoCart
    /\ dev = [kind |-> "sweep", c |-> SquareChannel_new(TRUE), armed |-> FALSE,
              n |-> 0, did |-> "new"]

IsTrigger(a, v) == a = \hFF14 /\ And(v, \h80) = \h80

SweepWb(a, v) ==
    /\ dev' = [dev EXCEPT !.c = Square_wb(@, a, v, 0),
                          !.armed = IF IsTrigger(a, v) THEN TRUE
                                    ELSE IF a = \hFF10 THEN FALSE ELSE @,
                          !.n = IF IsTrigger(a, v) THEN 0 ELSE @,
                          !.did = IF IsTrigger(a, v) THEN "trigger" ELSE "wb"]
    /\ UNCHANGED <<mmu, cpu, last, obs, cart>>

SweepStep ==
    /\ dev.n < MaxSweepTicks
    /\ dev' = [dev EXCEPT !.c = step_sweep(@), !.n = @ + 1, !.did = "step"]
    /\ UNCHANGED <<mmu, cpu, last, obs, cart>>

SweepNext ==
    \/ \E w \in SweepWrites : SweepWb(w[1], w[2])
    \/ SweepStep

SpecSweep == SweepInit /\ [][SweepNext]_vars

\* the next sweep clock is the p-th, 2p-th, .. after a trigger with period p
\* in 1 .. 7 and shift in 1 .. 7
SweepDue(d) ==
    /\ d.armed
    /\ d.c.sweep_period \in 1 .. 7 /\ d.c.sweep_shift \in 1 .. 7
    /\ (d.n + 1) % d.c.sweep_period = 0

\* sweep_freq + (sweep_freq >> s), or minus when negate is set
NewFreq(c) ==
    IF c.sweep_negate THEN c.sweep_frequency - Shr(c.sweep_frequency, c.sweep_shift)
    ELSE c.sweep_frequency + Shr(c.sweep_frequency, c.sweep_shift)

\* the sweep clock took c to d: the channel is off if the new frequency is
\* above 2047; else it is the frequency and the sweep frequency of d, and d is
\* off if the frequency after it is above 2047
Swept(c, d) ==
    IF NewFreq(c) > 2047 THEN ~d.active
    ELSE /\ d.frequency = NewFreq(c) /\ d.sweep_frequency = NewFreq(c)
         /\ NewFreq(d) > 2047 => ~d.active

\* C36: after a trigger with sweep period p in 1 .. 7 and shift in 1 .. 7 the
\* p-th sweep clock, and every p-th after it, computes the new frequency,
\* turns the channel off if it is above 2047 and else commits it and checks
\* the frequency after it; a trigger with period 0 reloads the delay with 8
C36_FrequencySweep ==
    /\ [](dev.did = "trigger" /\ dev.c.sweep_period = 0
            => dev.c.sweep_delay = SWEEP_DELAY_ZERO_PERIOD)
    /\ [][dev'.did = "step" /\ SweepDue(dev) => Swept(dev.c, dev'.c)]_vars

\* as built: from a trigger on the delay is in 1 .. 8, so that a sweep clock
\* only counts it down or reloads it with 8, and changes neither the
\* frequency nor whether the channel is on
C36_SweepAsBuilt ==
    /\ [](dev.did # "new" /\ (dev.armed \/ dev.c.sweep_enabled)
            => dev.c.sweep_delay \in 1 .. SWEEP_DELAY_ZERO_PERIOD)
    /\ [][dev'.did = "step" /\ dev.c.sweep_enabled
            => dev'.c = [dev.c EXCEPT
                          !.sweep_delay = IF @ > 1 THEN @ - 1
                                          ELSE SWEEP_DELAY_ZERO_PERIOD]]_vars

\* the first sweep clock after a trigger at frequency 0x400 with period 1 and
\* shift 1, upwards: the frequency is still 0x400, not 0x600
C36_Skipped ==
    /\ dev.did = "step" /\ dev.armed /\ dev.n = 1
    /\ dev.c.sweep_period = 1 /\ dev.c.sweep_shift = 1 /\ ~dev.c.sweep_negate
    /\ dev.c.active /\ dev.c.sweep_enabled
    /\ dev.c.frequency = \h400 /\ dev.c.sweep_frequency = \h400
    /\ dev.c.sweep_delay = SWEEP_DELAY_ZERO_PERIOD

----------------------------------------------------------------------------
(* The channels that report on(), under SpecSound.                          *)

Channel(s, n) == <<s.channel1, s.channel2, s.channel3, s.channel4>>[n]

\* a channel that is on has its DAC enabled and a length value above 0
OnImpliesDacAndLength(s) ==
    \A n \in 1 .. 4 :
       Channel(s, n).active =>
          Channel(s, n).dac_enabled /\ Channel(s, n).length.value > 0

\* a channel that is on with its length enabled at value 1 is off after an
\* operation that ran one length clock and wrote no register
OffAfterLastClock ==
    \A n \in 1 .. 4 :
       /\ Channel(dev.s, n).active
       /\ Channel(dev.s, n).length.enabled
       /\ Channel(dev.s, n).length.value = 1
       /\ dev'.s.clk.length = dev.s.clk.length + 1
       /\ dev'.did.op # "wb"
       => ~Channel(dev'.s, n).active

\* an operation that leaves the DAC of a channel disabled after it was
\* enabled leaves the channel off
OffWithDac ==
    \A n \in 1 .. 4 :
       Channel(dev.s, n).dac_enabled /\ ~Channel(dev'.s, n).dac_enabled
       => ~Channel(dev'.s, n).active

\* C29: in every state, before and after the frame steps that are due, each
\* channel that reports on() has its DAC enabled and a length value above 0;
\* a channel on with length enabled at value 1 is off after one length clock;
\* clearing the DAC-enable bits turns the channel off in the same write
C29_LengthAutoDisable ==
    /\ [](OnImpliesDacAndLength(dev.s) /\ OnImpliesDacAndLength(Seen))
    /\ [][OffAfterLastClock /\ OffWithDac]_vars

\* a read ran the length clock that took the length of a channel from 1 to 0:
\* the channel was on before the read and is off after it, its DAC enabled
C29_Witness ==
    \E n \in 1 .. 4 :
       /\ dev.did.op = "rb" /\ n \in dev.did.was
       /\ ~Channel(dev.s, n).active
       /\ Channel(dev.s, n).dac_enabled
       /\ Channel(dev.s, n).length.enabled
       /\ Channel(dev.s, n).length.value = 0

\* a write turned a channel off by disabling its DAC while the sound stayed
\* on and the length had not run out
C29_DacWitness ==
    \E n \in 1 .. 4 :
       /\ dev.did.op = "wb" /\ n \in dev.did.was /\ dev.s.on
       /\ ~Channel(dev.s, n).active
       /\ ~Channel(dev.s, n).dac_enabled
       /\ Channel(dev.s, n).length.value > 0

----------------------------------------------------------------------------
(* The register file (registers.rs).  f holds the bits of CpuFlags.  The    *)
(* sums of hld and hli are plain u16 arithmetic: where overflow is checked   *)
(* (the dev and test profiles) a sum that leaves the u16 panics, elsewhere   *)
(* it wraps.                                                                 *)

Registers_new(mode) ==
    CASE mode = "Classic" ->
            [a |-> \h01, f |-> \hB0, b |-> \h00, c |-> \h13, d |-> \h00, e |-> \hD8,
             h |-> \h01, l |-> \h4D, pc |-> \h0100, sp |-> \hFFFE]
      [] mode = "ColorAsClassic" ->
            [a |-> \h11, f |-> \h80, b |-> \h00, c |-> \h00, d |-> \h00, e |-> \h08,
             h |-> \h00, l |-> \h7C, pc |-> \h0100, sp |-> \hFFFE]
      [] mode = "Color" ->
            [a |-> \h11, f |-> \h80, b |-> \h00, c |-> \h00, d |-> \hFF, e |-> \h56,
             h |-> \h00, l |-> \h0D, pc |-> \h0100, sp |-> \hFFFE]

hl(r) == Or(Shl(r.h, 8), r.l)

set_hl(r, value) == [r EXCEPT !.h = Shr(value, 8), !.l = And(value, \h00FF)]

\* the registers afterwards, the value returned and whether the call panicked
hld(r, overflow_checks) ==
    LET res == hl(r)
    IN IF res = 0 /\ overflow_checks THEN [r |-> r, ret |-> PANIC, panic |-> TRUE]
       ELSE [r |-> set_hl(r, (res - 1) % 65536), ret |-> res, panic |-> FALSE]

hli(r, overflow_checks) ==
    LET res == hl(r)
    IN IF res = \hFFFF /\ overflow_checks THEN [r |-> r, ret |-> PANIC, panic |-> TRUE]
       ELSE [r |-> set_hl(r, (res + 1) % 65536), ret |-> res, panic |-> FALSE]

\* the values given to set_hl: the ends of the range, the carries between the
\* halves and the value of the test hl_special
HlValues == {\h0000, \h0001, \h00FF, \h0100, \h1234, \h7FFF, \h8000, \hFF00, \hFFFE, \hFFFF}

GbModes == {"Classic", "ColorAsClassic", "Color"}

\* the calls of hld and hli made after one set_hl
MaxSteps == 3

RegsInit ==
    /\ mmu = MMU_new(get_mbc(Plain(0), FALSE).mbc, FALSE, TRUE, TRUE)
    /\ cpu = CPU_new
    /\ last = Idle
    /\ obs = Obs0
    /\ cart = NoCart
    /\ \E mode \in GbModes, overflow_checks \in BOOLEAN :
          dev = [kind |-> "regs", overflow_checks |-> overflow_checks,
                 r |-> Registers_new(mode), panic |-> FALSE, steps |-> 0,
                 did |-> [op |-> "new", before |-> Registers_new(mode), ret |-> 0]]

RegsDid(op, res) ==
    /\ ~dev.panic
    /\ op # "set_hl" => dev.steps < MaxSteps
    /\ dev' = [dev EXCEPT !.r = res.r, !.panic = res.panic,
                          !.steps = IF op = "set_hl" THEN 0 ELSE @ + 1,
                          !.did = [op |-> op, before |-> dev.r, ret |-> res.ret]]
    /\ UNCHANGED <<mmu, cpu, last, obs, cart>>

SetHl(value) == RegsDid("set_hl", [r |-> set_hl(dev.r, value), ret |-> 0, panic |-> FALSE])

Hld == RegsDid("hld", hld(dev.r, dev.overflow_checks))

Hli == RegsDid("hli", hli(dev.r, dev.overflow_checks))

RegsNext ==
    \/ \E value \in HlValues : SetHl(value)
    \/ Hld
    \/ Hli

SpecRegs == RegsInit /\ [][RegsNext]_vars

\* C30: hld returns HL and leaves HL - 1 modulo 2^16, hli returns HL and
\* leaves HL + 1 modulo 2^16, for every HL, 0x0000 and 0xFFFF included;
\* neither fails nor changes another register; hli after hld, and hld after
\* hli, restore HL
C30_HlAutoStep ==
    LET step == IF dev.did.op = "hld" THEN 65535 ELSE 1
        checks == dev.overflow_checks
    IN /\ dev.did.op \in {"hld", "hli"} =>
             /\ ~dev.panic
             /\ dev.did.ret = hl(dev.did.before)
             /\ hl(dev.r) = (hl(dev.did.before) + step) % 65536
             /\ dev.r = [dev.did.before EXCEPT !.h = dev.r.h, !.l = dev.r.l]
       /\ ~dev.panic =>
             /\ hl(hli(hld(dev.r, checks).r, checks).r) = hl(dev.r)
             /\ hl(hld(hli(dev.r, checks).r, checks).r) = hl(dev.r)

\* where the sum stays within the u16, or overflow is not checked, the claim
\* holds of the call made last
C30_WithinRange ==
    LET step == IF dev.did.op = "hld" THEN 65535 ELSE 1
        edge == IF dev.did.op = "hld" THEN 0 ELSE \hFFFF
    IN dev.did.op \in {"hld", "hli"} /\ ~(dev.overflow_checks /\ hl(dev.did.before) = edge) =>
          /\ ~dev.panic
          /\ dev.did.ret = hl(dev.did.before)
          /\ hl(dev.r) = (hl(dev.did.before) + step) % 65536
          /\ dev.r = [dev.did.before EXCEPT !.h = dev.r.h, !.l = dev.r.l]

\* hld was called at HL = 0x0000 where overflow is checked, and panicked
C30_Panicked ==
    dev.did.op = "hld" /\ hl(dev.did.before) = 0 /\ dev.overflow_checks /\ dev.panic

====
